---- MODULE Spec2Model ----
(***************************************************************************)
(* Resume / job-description matching: the document cache                   *)
(* (file_cache_manager.py), the analyzer call and the parsing of the       *)
(* model's reply (resume_analyzer.py) and the batch generator              *)
(* Router.analyze_jd (router.py).                                          *)
(*                                                                         *)
(* Texts are sequences of one-character strings.  An Optional value is a   *)
(* sequence of length 0 (None) or 1 (the value).  A Python dict is a       *)
(* sequence of [k, v] entries in insertion order.                          *)
(***************************************************************************)
EXTENDS Integers, Sequences, FiniteSets, TLC

VARIABLES
    jd_folder,       \* the job-description folder on disk
    resume_folder,   \* the resume folder on disk
    jd_cache,        \* FileCacheManager.jd_cache
    resume_cache,    \* FileCacheManager.resume_cache
    refresh,         \* the thread running refresh_cache: its position and loop state
    gen,             \* per batch: the frame of the generator Router.analyze_jd
    events,          \* per batch: what the generator has yielded so far
    llm_calls,       \* per batch: the resumes for which Agent.run was invoked
    config_has_llm,  \* whether the analyzer's config holds an 'llm' section
    env,             \* source changes and refreshes so far, and what a refresh left
    extraction,      \* one call of the extractor: its input and what it returned
    main,            \* one run of the command-line entry point
    ui               \* one Analyze action of the dashboard: the handler on_analyze

vars == <<jd_folder, resume_folder, jd_cache, resume_cache, refresh,
          gen, events, llm_calls, config_has_llm, env, extraction, main, ui>>

----------------------------------------------------------------------------
(* Bounds *)

MaxSourceChanges == 1
MaxRefreshes == 1

----------------------------------------------------------------------------
(* Values *)

None == <<>>
Some(x) == <<x>>

\* Python truthiness of an Optional[str]: None and "" are falsy.
Truthy(opt) == opt /= None /\ opt[1] /= <<>>

\* What str.strip() removes and \s matches, of the characters in use.
Whitespace == {" ", "\t", "\n"}

ResumeNames == {"alice", "bob", "carol"}
JdNames == {"backend_eng", "ml", "qa"}

\* Lexicographic order of the names in use, for sorted().
NameOrder == <<"alice", "backend_eng", "bob", "carol", "ml", "qa">>

BatchIds == {"b1", "b2"}

RECURSIVE SelectNames(_, _)
SelectNames(order, S) ==
    IF order = <<>> THEN <<>>
    ELSE (IF Head(order) \in S THEN <<Head(order)>> ELSE <<>>)
         \o SelectNames(Tail(order), S)

Range(s) == {s[i] : i \in 1..Len(s)}

\* sorted() of a list of distinct names.
Sorted(names) == SelectNames(NameOrder, Range(names))

----------------------------------------------------------------------------
(* str.strip() *)

RECURSIVE LStrip(_)
LStrip(s) ==
    IF s /= <<>> /\ Head(s) \in Whitespace THEN LStrip(Tail(s)) ELSE s

RECURSIVE RStrip(_)
RStrip(s) ==
    IF s /= <<>> /\ s[Len(s)] \in Whitespace
    THEN RStrip(SubSeq(s, 1, Len(s) - 1)) ELSE s

Strip(s) == RStrip(LStrip(s))

----------------------------------------------------------------------------
(* dict *)

Keys(d) == [i \in 1..Len(d) |-> d[i].k]

HasKey(d, k) == \E i \in 1..Len(d) : d[i].k = k

\* d.get(k)
DictGet(d, k) ==
    IF HasKey(d, k)
    THEN Some((CHOOSE e \in Range(d) : e.k = k).v)
    ELSE None

\* d[k] = v : an existing key keeps its position.
DictSet(d, k, v) ==
    IF HasKey(d, k)
    THEN [i \in 1..Len(d) |-> IF d[i].k = k THEN [k |-> k, v |-> v] ELSE d[i]]
    ELSE Append(d, [k |-> k, v |-> v])

----------------------------------------------------------------------------
(* FileCacheManager *)

\* A PDF file is [stem, ok, pages]: PdfReader or extract_text raises when ~ok.
RECURSIVE ConcatPages(_)
ConcatPages(pages) ==
    IF pages = <<>> THEN <<>>
    ELSE (IF Head(pages) /= <<>> THEN Head(pages) ELSE <<>>)
         \o ConcatPages(Tail(pages))

extract_text_from_pdf(file) ==
    IF file.ok THEN Strip(ConcatPages(file.pages)) ELSE <<>>

\* A text file is [stem, ok, raw]: open or read raises when ~ok.
load_text_file(file) ==
    IF file.ok THEN Strip(file.raw) ELSE <<>>

\* The test of the content dropped: whatever was read is stored.
StoreAlways(cache, file_name, content) == DictSet(cache, file_name, content)

\* The body of one iteration of a loading loop.
StoreIfContent(cache, file_name, content) ==
    IF content /= <<>> THEN DictSet(cache, file_name, content) ELSE cache

LoadPdfFile(cache, file) ==
    StoreIfContent(cache, file.stem, extract_text_from_pdf(file))

LoadTxtFile(cache, file) ==
    StoreIfContent(cache, file.stem, load_text_file(file))

RECURSIVE LoadPdfFiles(_, _)
LoadPdfFiles(cache, files) ==
    IF files = <<>> THEN cache
    ELSE LoadPdfFiles(LoadPdfFile(cache, Head(files)), Tail(files))

\* The exception of an unreadable file not caught in _load_text_file: it
\* ends the loop, the files after it are never read.
RECURSIVE LoadTxtFilesAborting(_, _)
LoadTxtFilesAborting(cache, files) ==
    IF files = <<>> THEN cache
    ELSE IF ~Head(files).ok THEN cache
    ELSE LoadTxtFilesAborting(LoadTxtFile(cache, Head(files)), Tail(files))

RECURSIVE LoadTxtFiles(_, _)
LoadTxtFiles(cache, files) ==
    IF files = <<>> THEN cache
    ELSE LoadTxtFiles(LoadTxtFile(cache, Head(files)), Tail(files))

load_jd_files(cache, folder) ==
    IF ~folder.exists THEN cache
    ELSE LoadTxtFiles(LoadPdfFiles(cache, folder.pdf), folder.txt)

\* The two loops exchanged: the text files first, so that the PDF of a name
\* replaces the text of its text file.
load_resume_files_txt_first(cache, folder) ==
    IF ~folder.exists THEN cache
    ELSE LoadPdfFiles(LoadTxtFiles(cache, folder.txt), folder.pdf)

load_resume_files(cache, folder) ==
    IF ~folder.exists THEN cache
    ELSE LoadTxtFiles(LoadPdfFiles(cache, folder.pdf), folder.txt)

get_jd_content(cache, jd_name) == DictGet(cache, jd_name)

get_resume_content(cache, resume_name) == DictGet(cache, resume_name)

get_all_jd_names(cache) == Keys(cache)

get_all_resume_names(cache) == Keys(cache)

get_cache_stats(jdc, rc) ==
    [jd_count |-> Len(jdc), resume_count |-> Len(rc),
     total_files |-> Len(jdc) + Len(rc)]

----------------------------------------------------------------------------
(* ResumeAnalyzer._parse_output_to_analysis_result *)

Uppers == <<"A", "B", "C", "D", "E", "F", "G", "H", "I", "J", "K", "L", "M", "N",
      "O", "P", "Q", "R", "S", "T", "U", "V", "W", "X", "Y", "Z">>
Lowers == <<"a", "b", "c", "d", "e", "f", "g", "h", "i", "j", "k", "l", "m", "n",
      "o", "p", "q", "r", "s", "t", "u", "v", "w", "x", "y", "z">>

\* [A-Z]
UpperChars == Range(Uppers)

\* [a-zA-Z\s\-']
NameChars == Range(Uppers) \cup Range(Lowers) \cup Whitespace \cup {"-", "'"}

\* The characters of the texts in use.
Chars ==
    NameChars \cup {"*", ":", ".", ",", ";", "#", "x"}

IsText(s) == \A i \in 1..Len(s) : s[i] \in Chars

Max(S) == CHOOSE x \in S : \A y \in S : y <= x
Min(S) == CHOOSE x \in S : \A y \in S : x <= y

\* str.lower()
LowerChar(c) ==
    IF c \in UpperChars THEN Lowers[CHOOSE i \in 1..Len(Uppers) : Uppers[i] = c]
    ELSE c

Lower(text) == [i \in 1..Len(text) |-> LowerChar(text[i])]

\* The literal lit stands in text at position p.
At(text, p, lit) ==
    /\ p >= 1
    /\ p + Len(lit) - 1 <= Len(text)
    /\ SubSeq(text, p, p + Len(lit) - 1) = lit

\* lit in text
Contains(text, lit) == \E p \in 1..(Len(text) + 1) : At(text, p, lit)

\* text.find(lit), positions counted from 1, 0 for Python's -1
Find(text, lit) ==
    IF Contains(text, lit)
    THEN Min({p \in 1..(Len(text) + 1) : At(text, p, lit)})
    ELSE 0

\* The length of the longest run, from position p on, of characters that
\* satisfy In: what a greedy X* takes.
RunWhile(text, p, In(_)) ==
    Max({n \in 0..(Len(text) - p + 1) : \A r \in p..(p + n - 1) : In(text[r])})

IsSpace(c) == c \in Whitespace
IsNameChar(c) == c \in NameChars
NotNewline(c) == c /= "\n"

\* re.search: the match at the leftmost position where the pattern matches.
Search(text, MatchAt(_, _)) ==
    LET ps == {p \in 1..(Len(text) + 1) : MatchAt(text, p) /= None}
    IN IF ps = {} THEN None ELSE MatchAt(text, Min(ps))

LabelLit == <<"*", "*", "C", "a", "n", "d", "i", "d", "a", "t", "e", " ", "N", "a",
      "m", "e", ":", "*", "*">>

\* \*\*Candidate Name:\*\*\s*(.+) tried at p: \s* takes the whole run of
\* whitespace, newlines included, and gives back just as much as (.+), which
\* takes what is left of a line, needs to find a character.
Pattern1At(text, p) ==
    IF ~At(text, p, LabelLit) THEN None
    ELSE LET q == p + Len(LabelLit)
             k == RunWhile(text, q, IsSpace)
             starts == {s \in q..(q + k) : s <= Len(text) /\ text[s] /= "\n"}
         IN IF starts = {} THEN None
            ELSE Some(SubSeq(text, Max(starts),
                        Max(starts) + RunWhile(text, Max(starts), NotNewline) - 1))

\* ([A-Z][a-zA-Z\s\-']+) tried at s: a capital and the whole run of name
\* characters after it, at least one.
NameGroupAt(text, s) ==
    IF /\ s <= Len(text)
       /\ text[s] \in UpperChars
       /\ RunWhile(text, s + 1, IsNameChar) >= 1
    THEN Some(SubSeq(text, s, s + RunWhile(text, s + 1, IsNameChar)))
    ELSE None

\* is ([A-Z][a-zA-Z\s\-']+)\. tried at p: the full stop is no name
\* character, so it can only follow the whole run.
Pattern2At(text, p) ==
    IF /\ At(text, p, <<"i", "s", " ">>)
       /\ NameGroupAt(text, p + 3) /= None
       /\ At(text, p + 3 + Len(NameGroupAt(text, p + 3)[1]), <<".">>)
    THEN NameGroupAt(text, p + 3)
    ELSE None

\* (?:Person'?s )? tried at q: the position after it.
AfterPersons(text, q) ==
    IF At(text, q, <<"P", "e", "r", "s", "o", "n", "'", "s", " ">>) THEN q + 9
    ELSE IF At(text, q, <<"P", "e", "r", "s", "o", "n", "s", " ">>) THEN q + 8
    ELSE q

\* \s*\n([A-Z][a-zA-Z\s\-']+) tried at q: the run of whitespace has to end in
\* a newline, the capital follows it at once.
NameOnNextLineAt(text, q) ==
    LET w == RunWhile(text, q, IsSpace)
    IN IF w >= 1 /\ text[q + w - 1] = "\n" THEN NameGroupAt(text, q + w)
       ELSE None

\* a:\s*Extracted (?:Person'?s )?Name\s*\n([A-Z][a-zA-Z\s\-']+) tried at p
Pattern3At(text, p) ==
    IF ~At(text, p, <<"a", ":">>) THEN None
    ELSE LET q1 == p + 2 + RunWhile(text, p + 2, IsSpace)
             q2 == AfterPersons(text, q1 + 10)
         IN IF At(text, q1, <<"E", "x", "t", "r", "a", "c", "t", "e", "d", " ">>) /\ At(text, q2, <<"N", "a", "m", "e">>)
            THEN NameOnNextLineAt(text, q2 + 4)
            ELSE None

\* a:\s*Person'?s Name\s*\n([A-Z][a-zA-Z\s\-']+) tried at p
Pattern4At(text, p) ==
    IF ~At(text, p, <<"a", ":">>) THEN None
    ELSE LET q1 == p + 2 + RunWhile(text, p + 2, IsSpace)
             q2 == AfterPersons(text, q1)
         IN IF q2 > q1 /\ At(text, q2, <<"N", "a", "m", "e">>)
            THEN NameOnNextLineAt(text, q2 + 4)
            ELSE None

\* str.splitlines(), the newline being the only line boundary in use.
RECURSIVE SplitLines(_)
SplitLines(text) ==
    IF text = <<>> THEN <<>>
    ELSE LET n == RunWhile(text, 1, NotNewline)
         IN <<SubSeq(text, 1, n)>> \o SplitLines(SubSeq(text, n + 2, Len(text)))

\* re.match(r"a:\s*(Extracted )?(Person'?s )?Name", line.strip())
IsHeaderLine(line) ==
    LET s == Strip(line)
        q1 == 3 + RunWhile(s, 3, IsSpace)
        q2 == IF At(s, q1, <<"E", "x", "t", "r", "a", "c", "t", "e", "d", " ">>) THEN q1 + 10 ELSE q1
    IN At(s, 1, <<"a", ":">>) /\ At(s, AfterPersons(s, q2), <<"N", "a", "m", "e">>)

\* possible and re.match(r"^[A-Z][a-zA-Z\s\-']+$", possible)
IsLikelyName(possible) ==
    /\ Len(possible) >= 2
    /\ possible[1] \in UpperChars
    /\ \A r \in 2..Len(possible) : possible[r] \in NameChars

Unknown == <<"U", "n", "k", "n", "o", "w", "n">>

\* for j in range(1, 3): if i + j < len(lines): ... : the first of the two
\* lines after header line i that is a likely name.
LikelyNameAfter(lines, i) ==
    LET js == {j \in 1..2 : i + j <= Len(lines) /\ IsLikelyName(Strip(lines[i + j]))}
    IN IF js = {} THEN None ELSE Some(Strip(lines[i + Min(js)]))

\* Pattern 5 with the empty text as the name it starts from.
Pattern5DefaultEmpty(text) ==
    LET lines == SplitLines(text)
        hs == {i \in 1..Len(lines) :
                  /\ IsHeaderLine(lines[i])
                  /\ LikelyNameAfter(lines, i) /= None
                  /\ LikelyNameAfter(lines, i) /= Some(Unknown)}
    IN IF hs = {} THEN <<>> ELSE LikelyNameAfter(lines, Min(hs))[1]

\* Pattern 5: the loop over the lines ends at the first header line that
\* gave a name other than "Unknown".
Pattern5(text) ==
    LET lines == SplitLines(text)
        hs == {i \in 1..Len(lines) :
                  /\ IsHeaderLine(lines[i])
                  /\ LikelyNameAfter(lines, i) /= None
                  /\ LikelyNameAfter(lines, i) /= Some(Unknown)}
    IN IF hs = {} THEN Unknown ELSE LikelyNameAfter(lines, Min(hs))[1]

\* The copular sentence tried before the label.
extract_name_copular_first(text) ==
    IF Search(text, Pattern2At) /= None THEN Strip(Search(text, Pattern2At)[1])
    ELSE IF Search(text, Pattern1At) /= None THEN Strip(Search(text, Pattern1At)[1])
    ELSE IF Search(text, Pattern3At) /= None THEN Strip(Search(text, Pattern3At)[1])
    ELSE IF Search(text, Pattern4At) /= None THEN Strip(Search(text, Pattern4At)[1])
    ELSE Pattern5(text)

\* The cascade of the five patterns.
extract_name(text) ==
    IF Search(text, Pattern1At) /= None THEN Strip(Search(text, Pattern1At)[1])
    ELSE IF Search(text, Pattern2At) /= None THEN Strip(Search(text, Pattern2At)[1])
    ELSE IF Search(text, Pattern3At) /= None THEN Strip(Search(text, Pattern3At)[1])
    ELSE IF Search(text, Pattern4At) /= None THEN Strip(Search(text, Pattern4At)[1])
    ELSE Pattern5(text)

positive_indicators == <<
    <<"s", "t", "r", "o", "n", "g", " ", "c", "a", "n", "d", "i", "d", "a",
      "t", "e">>,
    <<"g", "o", "o", "d", " ", "m", "a", "t", "c", "h">>,
    <<"w", "e", "l", "l", " ", "q", "u", "a", "l", "i", "f", "i", "e", "d">>,
    <<"e", "x", "c", "e", "l", "l", "e", "n", "t", " ", "f", "i", "t">>,
    <<"r", "e", "c", "o", "m", "m", "e", "n", "d", "e", "d">>,
    <<"s", "u", "i", "t", "a", "b", "l", "e">>,
    <<"q", "u", "a", "l", "i", "f", "i", "e", "d">>,
    <<"m", "a", "t", "c", "h", "e", "s">>,
    <<"a", "l", "i", "g", "n", "s", " ", "w", "e", "l", "l">> >>

negative_indicators == <<
    <<"n", "o", "t", " ", "a", " ", "m", "a", "t", "c", "h">>,
    <<"d", "o", "e", "s", " ", "n", "o", "t", " ", "m", "a", "t", "c", "h">>,
    <<"l", "a", "c", "k", "s">>,
    <<"g", "a", "p">>,
    <<"m", "i", "s", "s", "i", "n", "g">>,
    <<"n", "o", "t", " ", "s", "u", "i", "t", "a", "b", "l", "e">>,
    <<"n", "o", "t", " ", "q", "u", "a", "l", "i", "f", "i", "e", "d">>,
    <<"w", "e", "a", "k", " ", "c", "a", "n", "d", "i", "d", "a", "t", "e">>,
    <<"d", "o", "e", "s", " ", "n", "o", "t", " ", "a", "l", "i", "g", "n">> >>

ConclusionLit == <<"c", "o", "n", "c", "l", "u", "s", "i", "o", "n">>

\* sum(1 for indicator in indicators if indicator in conclusion_lower)
IndicatorCount(indicators, text) ==
    Cardinality({i \in 1..Len(indicators) : Contains(text, indicators[i])})

\* The counts alone, without the look at the conclusion.
determine_match_counts_only(text) ==
    LET conclusion_lower == Lower(text)
    IN IndicatorCount(positive_indicators, conclusion_lower)
          > IndicatorCount(negative_indicators, conclusion_lower)

\* The look at the conclusion alone, without the counts.
determine_match_conclusion_only(text) ==
    LET conclusion_lower == Lower(text)
    IN /\ Contains(conclusion_lower, ConclusionLit)
       /\ \E i \in 1..Len(positive_indicators) :
             Contains(SubSeq(conclusion_lower, Find(conclusion_lower, ConclusionLit),
                             Len(conclusion_lower)),
                      positive_indicators[i])

\* The verdict with a tie of the counts taken for a match.
determine_match_tie_matches(text) ==
    LET conclusion_lower == Lower(text)
    IN \/ IndicatorCount(positive_indicators, conclusion_lower)
             >= IndicatorCount(negative_indicators, conclusion_lower)
       \/ determine_match_conclusion_only(text)

determine_match(text) ==
    LET conclusion_lower == Lower(text)
        positive_count == IndicatorCount(positive_indicators, conclusion_lower)
        negative_count == IndicatorCount(negative_indicators, conclusion_lower)
    IN IF positive_count > negative_count THEN TRUE
       ELSE IF Contains(conclusion_lower, ConclusionLit)
       THEN LET conclusion_text ==
                   SubSeq(conclusion_lower, Find(conclusion_lower, ConclusionLit),
                          Len(conclusion_lower))
            IN \E i \in 1..Len(positive_indicators) :
                  Contains(conclusion_text, positive_indicators[i])
       ELSE FALSE

\* output_text[:200]
SummaryLimit == 200

ErrorPrefix == <<"E", "r", "r", "o", "r", " ", "p", "a", "r", "s", "i", "n", "g", " ",
      "a", "n", "a", "l", "y", "s", "i", "s", " ", "r", "e", "s", "u", "l",
      "t", ":", " ">>

\* The body of the try block with the raw text kept as the summary.
ParseBodyRawSummary(text) ==
    [name |-> extract_name(text), match |-> determine_match(text),
     summary |-> text]

\* The body of the try block.
ParseBody(text) ==
    [name |-> extract_name(text), match |-> determine_match(text),
     summary |-> Strip(text)]

\* The except branch quoting the whole text.
ParseFallbackWhole(text) ==
    [name |-> Unknown, match |-> FALSE,
     summary |-> ErrorPrefix \o text \o <<".", ".", ".">>]

\* The except branch.
ParseFallback(text) ==
    [name |-> Unknown, match |-> FALSE,
     summary |-> ErrorPrefix
                 \o SubSeq(text, 1, IF Len(text) < SummaryLimit THEN Len(text)
                                    ELSE SummaryLimit)
                 \o <<".", ".", ".">>]

\* The try block without its except branch: a failure inside leaves the
\* function.
ParseUncaught(text, internal_error) ==
    IF internal_error THEN [raised |-> TRUE, result |-> None]
    ELSE [raised |-> FALSE, result |-> ParseBody(text)]

\* _parse_output_to_analysis_result(output_text) for a str.  No statement of
\* the try block raises for a str; internal_error stands for an exception
\* raised inside it all the same, which the except branch turns into the
\* default result.
parse_output_to_analysis_result(text, internal_error) ==
    IF internal_error THEN [raised |-> FALSE, result |-> ParseFallback(text)]
    ELSE [raised |-> FALSE, result |-> ParseBody(text)]

----------------------------------------------------------------------------
(* The texts the extractor is applied to *)

\* Ways a reply names, or fails to name, the candidate.
NameSegments ==
    {
      \* no name at all
      <<>>,
      \* the label in bold, the name on its line
      <<"*", "*", "C", "a", "n", "d", "i", "d", "a", "t", "e", " ", "N", "a",
        "m", "e", ":", "*", "*", " ", "A", "n", "n", " ", "L", "e", "e">>,
      \* the label without the bold markers
      <<"C", "a", "n", "d", "i", "d", "a", "t", "e", " ", "N", "a", "m", "e",
        ":", " ", "A", "n", "n", " ", "L", "e", "e">>,
      \* the label in bold, the name on the next line
      <<"*", "*", "C", "a", "n", "d", "i", "d", "a", "t", "e", " ", "N", "a",
        "m", "e", ":", "*", "*", "\n", "A", "n", "n", " ", "L", "e", "e">>,
      \* the label in bold, more text on its line
      <<"*", "*", "C", "a", "n", "d", "i", "d", "a", "t", "e", " ", "N", "a",
        "m", "e", ":", "*", "*", " ", "A", "n", "n", " ", "L", "e", "e", ",",
        " ", "s", "e", "n", "i", "o", "r", ".", " ", "S", "h", "e", " ", "i",
        "s", " ", "C", "y", " ", "D", "o", "w", ".">>,
      \* the label in lower case
      <<"*", "*", "c", "a", "n", "d", "i", "d", "a", "t", "e", " ", "n", "a",
        "m", "e", ":", "*", "*", " ", "A", "n", "n", " ", "L", "e", "e">>,
      \* header of pattern 3
      <<"a", ":", " ", "E", "x", "t", "r", "a", "c", "t", "e", "d", " ", "P",
        "e", "r", "s", "o", "n", "'", "s", " ", "N", "a", "m", "e", "\n", "D",
        "i", " ", "E", "v", "e">>,
      \* header of pattern 4
      <<"a", ":", " ", " ", "P", "e", "r", "s", "o", "n", "s", " ", "N", "a",
        "m", "e", " ", "\n", "E", "d", " ", "F", "o", "x">>,
      \* header of pattern 5, an empty line before the name
      <<"a", ":", " ", "N", "a", "m", "e", "\n", "\n", "F", "a", "y", " ", "G",
        "i", "l">>,
      \* header of pattern 5, the first candidate being Unknown
      <<"a", ":", " ", "N", "a", "m", "e", "\n", "U", "n", "k", "n", "o", "w",
        "n", "\n", "x", "\n", "a", ":", " ", "N", "a", "m", "e", ":", "\n",
        " ", "H", "a", "l", " ", "I", "t", "o", " ">> }

\* Sentences of the form "... is X."
CopularSegments ==
    {
      \* no copular sentence
      <<>>,
      \* a copular sentence naming somebody
      <<"T", "h", "e", " ", "c", "a", "n", "d", "i", "d", "a", "t", "e", " ",
        "i", "s", " ", "B", "o", "b", " ", "R", "a", "y", ".">>,
      \* a copular sentence without a capital
      <<"T", "h", "i", "s", " ", "i", "s", " ", "f", "i", "n", "e", ".">> }

\* Ways a reply words its conclusion.
VerdictSegments ==
    {
      \* no indicator
      <<>>,
      \* positive indicators only
      <<"S", "t", "r", "o", "n", "g", " ", "c", "a", "n", "d", "i", "d", "a",
        "t", "e", ",", " ", "r", "e", "c", "o", "m", "m", "e", "n", "d", "e",
        "d", ".">>,
      \* negative indicators only
      <<"L", "a", "c", "k", "s", " ", "d", "e", "p", "t", "h", ";", " ", "a",
        " ", "g", "a", "p", " ", "r", "e", "m", "a", "i", "n", "s", ".">>,
      \* a tie, a positive indicator in the conclusion
      <<"Q", "u", "a", "l", "i", "f", "i", "e", "d", " ", "b", "u", "t", " ",
        "l", "a", "c", "k", "s", " ", "d", "e", "p", "t", "h", ".", " ", "C",
        "o", "n", "c", "l", "u", "s", "i", "o", "n", ":", " ", "q", "u", "a",
        "l", "i", "f", "i", "e", "d", ".">>,
      \* negations of positive indicators
      <<"N", "o", "t", " ", "q", "u", "a", "l", "i", "f", "i", "e", "d", ".",
        " ", "C", "o", "n", "c", "l", "u", "s", "i", "o", "n", ":", " ", "n",
        "o", "t", " ", "s", "u", "i", "t", "a", "b", "l", "e", ".">>,
      \* negative indicators prevail, a positive one in the conclusion
      <<"L", "a", "c", "k", "s", " ", "d", "e", "p", "t", "h", ";", " ", "a",
        " ", "g", "a", "p", ".", " ", "C", "o", "n", "c", "l", "u", "s", "i",
        "o", "n", ":", " ", "a", " ", "g", "o", "o", "d", " ", "m", "a", "t",
        "c", "h", ".">>,
      \* a repeated positive indicator, one negative indicator
      <<"R", "e", "c", "o", "m", "m", "e", "n", "d", "e", "d", ",", " ", "r",
        "e", "c", "o", "m", "m", "e", "n", "d", "e", "d", ";", " ", "l", "a",
        "c", "k", "s", " ", "d", "e", "p", "t", "h", ".">>,
      \* two positive indicators, one negative indicator three times
      <<"S", "t", "r", "o", "n", "g", " ", "c", "a", "n", "d", "i", "d", "a",
        "t", "e", ",", " ", "r", "e", "c", "o", "m", "m", "e", "n", "d", "e",
        "d", ";", " ", "l", "a", "c", "k", "s", " ", "s", "k", "i", "l", "l",
        ",", " ", "l", "a", "c", "k", "s", " ", "d", "e", "p", "t", "h", ",",
        " ", "l", "a", "c", "k", "s", " ", "a", "l", "l", ".">>,
      \* a positive indicator before the conclusion, none in it
      <<"Q", "u", "a", "l", "i", "f", "i", "e", "d", " ", "b", "u", "t", " ",
        "l", "a", "c", "k", "s", " ", "d", "e", "p", "t", "h", ".", " ", "C",
        "o", "n", "c", "l", "u", "s", "i", "o", "n", ":", " ", "a", " ", "g",
        "a", "p", " ", "r", "e", "m", "a", "i", "n", "s", ".">> }

Lines(a, b, c) == a \o <<"\n">> \o b \o <<"\n">> \o c

\* The empty text, texts no pattern fits, the bold label with nothing but
\* blanks after it, a reply with blanks at both ends, and a text longer than
\* the fallback summary keeps.
SpecialInputs ==
    { <<>>,
      <<" ">>,
      <<"\n">>,
      <<"x", "#", ";", "*", "x", ":", ".">>,
      <<"*", "*", "C", "a", "n", "d", "i", "d", "a", "t", "e", " ", "N", "a",
        "m", "e", ":", "*", "*", " ", " ">>,
      <<"*", "*", "C", "a", "n", "d", "i", "d", "a", "t", "e", " ", "N", "a",
        "m", "e", ":", "*", "*", " ", "\n", "\n">>,
      <<" ", "\n", "*", "*", "C", "a", "n", "d", "i", "d", "a", "t", "e", " ",
        "N", "a", "m", "e", ":", "*", "*", " ", "A", "n", "n", " ", "L", "e",
        "e", "\n", "R", "e", "c", "o", "m", "m", "e", "n", "d", "e", "d", ".",
        "\n", "\t", " ">>,
      [i \in 1..(SummaryLimit + 50) |-> IF i % 7 = 0 THEN " " ELSE "x"] }

ParserInputs ==
    { Lines(a, b, c) : a \in NameSegments, b \in CopularSegments,
                       c \in VerdictSegments }
    \cup { Lines(b, a, c) : a \in NameSegments, b \in CopularSegments,
                            c \in VerdictSegments }
    \cup SpecialInputs

IdleExtraction ==
    [pc |-> "idle", output_text |-> <<>>, internal_error |-> FALSE, parsed |-> None]

\* The command-line entry point before it is started.
IdleMain ==
    [pc |-> "idle", args |-> None, result |-> None, printed |-> <<>>,
     exit_code |-> None]

\* The handler on_analyze before an Analyze action.
IdleUi == [pc |-> "idle", jd_name |-> "", total |-> 0, processed |-> 0, updates |-> 0]

----------------------------------------------------------------------------
(* ResumeAnalyzer.analyze_resume *)

\* Two replies of the model: one that names the candidate and recommends,
\* one that does neither.
ReplyTexts ==
    { <<"*", "*", "C", "a", "n", "d", "i", "d", "a", "t", "e", " ", "N", "a",
        "m", "e", ":", "*", "*", " ", "A", "n", "n", " ", "L", "e", "e", "\n",
        "R", "e", "c", "o", "m", "m", "e", "n", "d", "e", "d", ".", "\n">>,
      <<"L", "a", "c", "k", "s", " ", "d", "e", "p", "t", "h", ".">> }

\* What awaiting Agent.run can produce: an exception of the provider, a result
\* object without an output attribute, or an output text.
RunOutcomes ==
    { [kind |-> "raise", msg |-> "Request timed out."],
      [kind |-> "no_output"] }
    \cup { [kind |-> "output", text |-> t] : t \in ReplyTexts }

\* result = self._parse_output_to_analysis_result(output_text), for each reply.
ParsedReplies ==
    [t \in ReplyTexts |-> parse_output_to_analysis_result(t, FALSE)]

UnboundLocalMsg ==
    "cannot access local variable 'llm_conf' where it is not associated with a value"

\* The part of analyze_resume before Agent.run: llm_conf is bound only when the
\* config holds an 'llm' section, and reading it unbound raises.
analyze_resume_before_run(has_llm) ==
    IF has_llm THEN [raised |-> FALSE, msg |-> ""]
    ELSE [raised |-> TRUE, msg |-> UnboundLocalMsg]

\* The part of analyze_resume after Agent.run has returned or raised.
analyze_resume(outcome) ==
    IF outcome.kind = "raise"
    THEN [raised |-> TRUE, msg |-> outcome.msg]
    ELSE IF outcome.kind = "no_output"
    THEN [raised |-> TRUE, msg |-> "No output found in agent result"]
    ELSE ParsedReplies[outcome.text]

----------------------------------------------------------------------------
(* Router *)

get_available_jds(cache) == Sorted(get_all_jd_names(cache))

\* A SUCCESS record that takes the verdict and the summary of the result but
\* not its name.
SuccessRecordUnnamed(resume_name, result) ==
    [resume_name |-> resume_name,
     candidate_name |-> Unknown,
     match |-> result.match,
     summary |-> result.summary,
     status |-> "SUCCESS"]

SuccessRecord(resume_name, result) ==
    [resume_name |-> resume_name,
     candidate_name |-> result.name,
     match |-> result.match,
     summary |-> result.summary,
     status |-> "SUCCESS"]

\* An ERROR record that keeps no candidate name at all.
ErrorRecordBlankName(resume_name, error_msg) ==
    [resume_name |-> resume_name,
     candidate_name |-> <<>>,
     match |-> FALSE,
     summary |-> error_msg,
     status |-> "ERROR"]

ErrorRecord(resume_name, error_msg) ==
    [resume_name |-> resume_name,
     candidate_name |-> Unknown,
     match |-> FALSE,
     summary |-> error_msg,
     status |-> "ERROR"]

AnalyzeErrorMsg(resume_name, e) == <<"Error analyzing ", resume_name, ": ", e>>

NoContentMsg(resume_name) == <<"Could not retrieve content for ", resume_name>>

generate_table(results_list, verbose) ==
    (IF verbose THEN <<"=", "ANALYSIS SUMMARY TABLE", "=">> ELSE <<>>)
    \o <<"header", "-">>
    \o [i \in 1..Len(results_list) |->
          <<i, results_list[i].resume_name, results_list[i].candidate_name,
            IF results_list[i].match THEN "YES" ELSE "NO",
            results_list[i].status>>]

\* sum(1 for r in results_list if P(r))
Count(results_list, P(_)) ==
    Cardinality({i \in 1..Len(results_list) : P(results_list[i])})

\* Floor division (//) in place of true division.
MatchRateFloorDiv(successful_matches, total_successful) ==
    IF total_successful > 0
    THEN [raised |-> FALSE,
          num |-> (successful_matches \div total_successful) * 100,
          den |-> 1]
    ELSE [raised |-> FALSE, num |-> 0, den |-> 1]

\* The guard against an empty denominator dropped.
MatchRateUnguarded(successful_matches, total_successful) ==
    IF total_successful = 0 THEN [raised |-> TRUE, num |-> 0, den |-> 1]
    ELSE [raised |-> FALSE, num |-> successful_matches * 100,
          den |-> total_successful]

\* Python's true division: a quotient kept as an exact fraction, or the
\* ZeroDivisionError.
TrueDiv(a, b) ==
    IF b = 0 THEN [raised |-> TRUE, num |-> 0, den |-> 1]
    ELSE [raised |-> FALSE, num |-> a, den |-> b]

Times(q, n) == [q EXCEPT !.num = q.num * n]

MatchRate(successful_matches, total_successful) ==
    IF total_successful > 0
    THEN Times(TrueDiv(successful_matches, total_successful), 100)
    ELSE [raised |-> FALSE, num |-> 0, den |-> 1]

IsSuccess(r) == r.status = "SUCCESS"

\* Every record that is no match counted as an error.
IsErrorByMatch(r) == ~r.match

IsError(r) == r.status = "ERROR"
\* A record that failed counted among the matches.
IsSuccessfulMatchOrError(r) == r.match \/ r.status = "ERROR"

IsSuccessfulMatch(r) == r.match /\ r.status = "SUCCESS"

calculate_statistics(results_list) ==
    [total_analyzed |-> Len(results_list),
     successful_matches |-> Count(results_list, IsSuccessfulMatch),
     total_successful |-> Count(results_list, IsSuccess),
     total_errors |-> Count(results_list, IsError),
     match_rate |-> MatchRate(Count(results_list, IsSuccessfulMatch),
                              Count(results_list, IsSuccess))]

----------------------------------------------------------------------------
(* The generator Router.analyze_jd: its frame and what it yields *)

NewFrame ==
    [pc |-> "idle", jd_name |-> "", verbose |-> FALSE, jd_content |-> None,
     resume_names |-> <<>>, i |-> 0, results_list |-> <<>>, error |-> None]

\* The test dropped: a missing job description goes unnoticed.
JdMissingSkipped(jd_content) == FALSE

\* if not jd_content
JdMissing(jd_content) == ~Truthy(jd_content)

\* The test dropped: an empty candidate list goes unnoticed.
NoResumesSkipped(resume_names) == FALSE

\* if not resume_names
NoResumes(resume_names) == resume_names = <<>>

\* The test dropped: the analyzer is called whatever was fetched.
HasContentAlways(resume_content) == TRUE

\* if resume_content
HasContent(resume_content) == Truthy(resume_content)

NotFoundError(jd_name, available_jds) ==
    [type |-> "ValueError",
     text |-> <<"Job description '", jd_name, "' not found. Available: ">>,
     available |-> available_jds]

NoResumesError ==
    [type |-> "ValueError", text |-> <<"No resumes found in cache.">>,
     available |-> <<>>]

\* results_list.insert(0, result_dict) in place of append.
PrependResult(results_list, result_dict) == <<result_dict>> \o results_list

\* The record written over the last one when that is an ERROR record.
AppendResultOverwriting(results_list, result_dict) ==
    IF results_list /= <<>> /\ results_list[Len(results_list)].status = "ERROR"
    THEN SubSeq(results_list, 1, Len(results_list) - 1) \o <<result_dict>>
    ELSE Append(results_list, result_dict)

\* results_list.append(result_dict)
AppendResult(results_list, result_dict) == Append(results_list, result_dict)

\* The progress event yielded before the append: the list lacks the record of
\* the name it carries.
ProgressEventStale(results_list, resume_name) ==
    [payload |-> SubSeq(results_list, 1, Len(results_list) - 1),
     resume_name |-> Some(resume_name)]

\* yield list(results_list), resume_name
ProgressEvent(results_list, resume_name) ==
    [payload |-> results_list, resume_name |-> Some(resume_name)]

\* The final event yielded with the job-description name where None belongs.
FinalEventNamed(jd_name, results_list, table_data, statistics) ==
    [payload |-> [jd_name |-> jd_name, results |-> results_list,
                  table |-> table_data, statistics |-> statistics],
     resume_name |-> Some(jd_name)]

\* yield {...}, None
FinalEvent(jd_name, results_list, table_data, statistics) ==
    [payload |-> [jd_name |-> jd_name, results |-> results_list,
                  table |-> table_data, statistics |-> statistics],
     resume_name |-> None]

\* The end of one loop iteration without its yield: the record is appended
\* and the loop moves on.
RecordedSilently(g, evs, result_dict) ==
    [g |-> [g EXCEPT !.results_list = AppendResult(g.results_list, result_dict),
                     !.i = g.i + 1, !.pc = "loop"],
     evs |-> evs]

\* The end of one loop iteration: the record is appended, the progress event
\* is yielded and the loop moves to the next name.
Recorded(g, evs, result_dict) ==
    LET rl == AppendResult(g.results_list, result_dict)
    IN [g |-> [g EXCEPT !.results_list = rl, !.i = g.i + 1, !.pc = "loop"],
        evs |-> Append(evs, ProgressEvent(rl, g.resume_names[g.i]))]

\* The exception of the analyzer call left uncaught: it leaves the generator.
OnAnalyzeExceptionUncaught(g, evs, e) ==
    [g |-> [g EXCEPT !.pc = "raised",
                     !.error = Some([type |-> "Exception", text |-> <<e>>,
                                     available |-> <<>>])],
     evs |-> evs]

\* The exception of the analyzer call answered by trying the same resume
\* again.
OnAnalyzeExceptionRetry(g, evs, e) ==
    [g |-> [g EXCEPT !.pc = "loop"], evs |-> evs]

\* except Exception as e: around the analyzer call.
OnAnalyzeException(g, evs, e) ==
    Recorded(g, evs, ErrorRecord(g.resume_names[g.i],
                                 AnalyzeErrorMsg(g.resume_names[g.i], e)))

\* The analyzer returned a result.
OnAnalyzeResult(g, evs, result) ==
    Recorded(g, evs, SuccessRecord(g.resume_names[g.i], result))

\* The cache subscripted where get is called: the KeyError of a name that is
\* not cached leaves the generator.
OnNoContentRaises(g, evs) ==
    [g |-> [g EXCEPT !.pc = "raised",
                     !.error = Some([type |-> "KeyError",
                                     text |-> <<g.resume_names[g.i]>>,
                                     available |-> <<>>])],
     evs |-> evs]

\* else: branch of "if resume_content".
OnNoContent(g, evs) ==
    Recorded(g, evs, ErrorRecord(g.resume_names[g.i],
                                 NoContentMsg(g.resume_names[g.i])))

\* The loop iterating a list that is shared with the cache: names cached
\* since the batch began are picked up at its end.
LoopFrameGrowing(g, cache) ==
    [g EXCEPT !.resume_names =
        g.resume_names \o
        SelectSeq(Keys(cache), LAMBDA n : n \notin Range(g.resume_names))]

\* for i, resume_name in enumerate(resume_names, 1): the loop iterates the
\* list bound before it, a copy of the keys, whatever the cache holds now.
LoopFrame(g, cache) == g

\* The results list kept in one place for all batches of the Router: a batch
\* sees the list of the other when that is the longer one.
SharedResultsFrame(frames, b) ==
    LET other == CHOOSE c \in DOMAIN frames : c /= b
    IN [frames[b] EXCEPT
           !.results_list = IF Len(frames[other].results_list) > Len(@)
                            THEN frames[other].results_list ELSE @]

\* jd_content, resume_names, results_list and the loop position are locals
\* of the generator: each batch reads its own.
OwnFrame(frames, b) == frames[b]

----------------------------------------------------------------------------
(* The folders the cache is built from *)

TxtFile(stem, raw) == [stem |-> stem, ok |-> TRUE, raw |-> raw]
BadTxtFile(stem) == [stem |-> stem, ok |-> FALSE, raw |-> <<>>]
PdfFile(stem, pages) == [stem |-> stem, ok |-> TRUE, pages |-> pages]
BadPdfFile(stem) == [stem |-> stem, ok |-> FALSE, pages |-> <<>>]

RawText == <<" ", "t", " ">>
RawBlank == <<" ">>
Pages == << <<"p">>, <<>>, <<"q", " ">> >>
BlankPages == << <<" ">>, <<>> >>

Folder(pdf, txt) == [exists |-> TRUE, pdf |-> pdf, txt |-> txt]
NoFolder == [exists |-> FALSE, pdf |-> <<>>, txt |-> <<>>]

\* pdf and txt list the files in the order glob yields them.
JdFolders ==
    { NoFolder,
      Folder(<<>>, <<TxtFile("qa", RawText), TxtFile("backend_eng", RawText)>>),
      Folder(<<PdfFile("backend_eng", Pages)>>, <<>>) }

ResumeFolders ==
    { NoFolder,
      Folder(<<>>, <<>>),
      Folder(<<>>, <<TxtFile("alice", RawText), TxtFile("bob", RawText)>>),
      Folder(<<>>, <<TxtFile("carol", RawText), TxtFile("alice", RawText),
                     TxtFile("bob", RawText)>>),
      Folder(<<PdfFile("bob", Pages)>>, <<TxtFile("alice", RawText)>>),
      Folder(<<>>, <<TxtFile("alice", RawBlank), TxtFile("bob", RawText)>>),
      Folder(<<>>, <<BadTxtFile("alice"), TxtFile("bob", RawText)>>) }

\* Files a user uploads through the Admin tab (handle_upload).
ResumeUploads == { TxtFile("alice", RawText) }

\* The folders of the specification of the cache alone: every way a file can
\* be (text, blank, empty, unreadable), a PDF and a text file of one name,
\* either order of two text files.
MaxCacheChanges == 1
MaxCacheRefreshes == 2

CacheResumeNames == {"alice", "bob"}
CacheJdNames == {"qa"}

TxtVariants(stem) ==
    { TxtFile(stem, RawText), TxtFile(stem, RawBlank), TxtFile(stem, <<>>),
      BadTxtFile(stem) }

PdfVariants(stem) ==
    { PdfFile(stem, Pages), PdfFile(stem, BlankPages), BadPdfFile(stem) }

FileLists(names, Variants(_), max) ==
    { <<>> }
    \cup { <<f>> : f \in UNION { Variants(n) : n \in names } }
    \cup (IF max < 2 THEN {}
          ELSE UNION { { <<f, g>> : f \in Variants(m), g \in Variants(n) } :
                       <<m, n>> \in { q \in names \X names : q[1] /= q[2] } })

CacheFolders(names, pdf_variants(_), txt_max) ==
    { NoFolder }
    \cup { Folder(pdf, txt) : pdf \in FileLists(names, pdf_variants, 1),
                               txt \in FileLists(names, TxtVariants, txt_max) }

GoodPdfOnly(stem) == { PdfFile(stem, Pages) }

CacheJdFolders == CacheFolders(CacheJdNames, GoodPdfOnly, 1)
CacheResumeFolders == CacheFolders(CacheResumeNames, PdfVariants, 2)

CacheUploads == { TxtFile("alice", RawText), TxtFile("bob", RawBlank) }

Stems(files) == [i \in 1..Len(files) |-> files[i].stem]

HasFile(files, stem) == \E i \in 1..Len(files) : files[i].stem = stem

FileOf(files, stem) == CHOOSE f \in Range(files) : f.stem = stem

\* shutil.copy into the folder: a file of that name is overwritten.
PutFile(files, file) ==
    IF HasFile(files, file.stem)
    THEN [i \in 1..Len(files) |->
            IF files[i].stem = file.stem THEN file ELSE files[i]]
    ELSE Append(files, file)

RemoveFile(files, stem) == SelectSeq(files, LAMBDA f : f.stem /= stem)

\* Reading a file the glob listed: a file deleted since cannot be opened.
ReadListed(files, stem, missing) ==
    IF HasFile(files, stem) THEN FileOf(files, stem) ELSE missing

MissingTxt(stem) == BadTxtFile(stem)
MissingPdf(stem) == [stem |-> stem, ok |-> FALSE, pages |-> <<>>]

----------------------------------------------------------------------------
(* Initial state: the cache as __init__ leaves it *)

\* The constructor giving up when a folder is missing: nothing is loaded.
ConstructStrict(jdf, rf) ==
    IF jdf.exists /\ rf.exists
    THEN [jd_cache |-> load_jd_files(<<>>, jdf),
          resume_cache |-> load_resume_files(<<>>, rf)]
    ELSE [jd_cache |-> <<>>, resume_cache |-> <<>>]

\* FileCacheManager(jd_folder, resume_folder): both mappings start empty and
\* are loaded, the job descriptions first.
Construct(jdf, rf) ==
    [jd_cache |-> load_jd_files(<<>>, jdf),
     resume_cache |-> load_resume_files(<<>>, rf)]

\* What is known of the source and of the refreshes: how often the source
\* changed and how often refresh_cache was called; and, where a client of
\* the cache observes its refreshes, the change count when the last call
\* began and what the caches held when the last call returned.
NewEnv ==
    [changes |-> 0, refreshes |-> 0, observing |-> FALSE, started |-> 0,
     last |-> None, reply |-> <<>>]

\* refresh_cache is entered, the source having changed n times so far.
Began(e, n) == IF e.observing THEN [e EXCEPT !.started = n] ELSE e

Init ==
    /\ jd_folder \in JdFolders
    /\ resume_folder \in ResumeFolders
    /\ jd_cache = Construct(jd_folder, resume_folder).jd_cache
    /\ resume_cache = Construct(jd_folder, resume_folder).resume_cache
    /\ refresh = [pc |-> "idle", todo |-> <<>>]
    /\ gen = [b \in BatchIds |-> NewFrame]
    /\ events = [b \in BatchIds |-> <<>>]
    /\ llm_calls = [b \in BatchIds |-> <<>>]
    /\ config_has_llm \in BOOLEAN
    /\ env = NewEnv
    /\ extraction = IdleExtraction
    /\ main = IdleMain
    /\ ui = IdleUi

----------------------------------------------------------------------------
(* refresh_cache, statement by statement, and what changes the folders *)

cacheVars == <<jd_cache, resume_cache, refresh>>
folderVars == <<jd_folder, resume_folder>>
\* The analysis side: the generator frames and the extractor.
genVars == <<gen, events, llm_calls, extraction, main, ui>>

\* handle_upload: the file is copied into the resume folder, then
\* refresh_cache is called.
UploadWithin(file, max_changes, max_refreshes) ==
    /\ refresh.pc = "idle"
    /\ resume_folder.exists
    /\ env.changes < max_changes
    /\ env.refreshes < max_refreshes
    /\ resume_folder' = [resume_folder EXCEPT !.txt = PutFile(@, file)]
    /\ refresh' = [refresh EXCEPT !.pc = "clear_jd"]
    /\ env' = Began([env EXCEPT !.changes = @ + 1, !.refreshes = @ + 1],
                    env.changes + 1)
    /\ UNCHANGED <<jd_folder, jd_cache, resume_cache, genVars, config_has_llm>>

Upload(file) == UploadWithin(file, MaxSourceChanges, MaxRefreshes)

\* A resume file is deleted from the folder by something outside the program.
DeleteResumeFileWithin(stem, max_changes) ==
    /\ resume_folder.exists
    /\ env.changes < max_changes
    /\ HasFile(resume_folder.txt, stem)
    /\ resume_folder' = [resume_folder EXCEPT !.txt = RemoveFile(@, stem)]
    /\ env' = [env EXCEPT !.changes = @ + 1]
    /\ UNCHANGED <<jd_folder, cacheVars, genVars, config_has_llm>>

DeleteResumeFile(stem) == DeleteResumeFileWithin(stem, MaxSourceChanges)

\* refresh_cache is called.
RefreshCallWithin(max_refreshes) ==
    /\ refresh.pc = "idle"
    /\ env.refreshes < max_refreshes
    /\ refresh' = [refresh EXCEPT !.pc = "clear_jd"]
    /\ env' = Began([env EXCEPT !.refreshes = @ + 1], env.changes)
    /\ UNCHANGED <<folderVars, jd_cache, resume_cache, genVars, config_has_llm>>

RefreshCall == RefreshCallWithin(MaxRefreshes)

\* Only the first entry removed where the mapping is to be emptied.
ClearedButFirst(cache) == IF cache = <<>> THEN <<>> ELSE Tail(cache)

\* The clear() left out.
ClearedNot(cache) == cache

\* dict.clear()
Cleared(cache) == <<>>

\* refresh_cache returns: what the caches hold then is noted.
Returned(e, r, jdc, rc) ==
    IF r.pc = "idle" /\ e.observing
    THEN [e EXCEPT !.last = Some([jd_cache |-> jdc, resume_cache |-> rc,
                                  since |-> e.started])]
    ELSE e

\* self.jd_cache.clear()
ClearJdCache ==
    /\ refresh.pc = "clear_jd"
    /\ jd_cache' = Cleared(jd_cache)
    /\ refresh' = [refresh EXCEPT !.pc = "clear_resume"]
    /\ UNCHANGED <<folderVars, resume_cache, genVars, config_has_llm, env>>

\* self.resume_cache.clear()
ClearResumeCache ==
    /\ refresh.pc = "clear_resume"
    /\ resume_cache' = Cleared(resume_cache)
    /\ refresh' = [refresh EXCEPT !.pc = "load_jd"]
    /\ UNCHANGED <<folderVars, jd_cache, genVars, config_has_llm, env>>

\* _load_jd_files up to the first glob: the folder test.
EnterLoadJd ==
    /\ refresh.pc = "load_jd"
    /\ refresh' = IF jd_folder.exists
                  THEN [pc |-> "jd_pdf", todo |-> Stems(jd_folder.pdf)]
                  ELSE [pc |-> "load_resume", todo |-> <<>>]
    /\ UNCHANGED <<folderVars, jd_cache, resume_cache, genVars, config_has_llm, env>>

\* _load_resume_files up to the first glob: the folder test.
EnterLoadResume ==
    /\ refresh.pc = "load_resume"
    /\ refresh' = IF resume_folder.exists
                  THEN [pc |-> "resume_pdf", todo |-> Stems(resume_folder.pdf)]
                  ELSE [pc |-> "idle", todo |-> <<>>]
    /\ env' = Returned(env, refresh', jd_cache, resume_cache)
    /\ UNCHANGED <<folderVars, jd_cache, resume_cache, genVars, config_has_llm>>

\* One iteration of one of the four loading loops.
LoadNextFile ==
    /\ refresh.todo /= <<>>
    /\ LET stem == Head(refresh.todo)
       IN /\ jd_cache' =
                IF refresh.pc = "jd_pdf"
                THEN LoadPdfFile(jd_cache,
                        ReadListed(jd_folder.pdf, stem, MissingPdf(stem)))
                ELSE IF refresh.pc = "jd_txt"
                THEN LoadTxtFile(jd_cache,
                        ReadListed(jd_folder.txt, stem, MissingTxt(stem)))
                ELSE jd_cache
          /\ resume_cache' =
                IF refresh.pc = "resume_pdf"
                THEN LoadPdfFile(resume_cache,
                        ReadListed(resume_folder.pdf, stem, MissingPdf(stem)))
                ELSE IF refresh.pc = "resume_txt"
                THEN LoadTxtFile(resume_cache,
                        ReadListed(resume_folder.txt, stem, MissingTxt(stem)))
                ELSE resume_cache
    /\ refresh' = [refresh EXCEPT !.todo = Tail(@)]
    /\ UNCHANGED <<folderVars, genVars, config_has_llm, env>>

\* A loading loop ends: the next glob, the next folder, or the return.
EndLoadLoop ==
    /\ refresh.pc \in {"jd_pdf", "jd_txt", "resume_pdf", "resume_txt"}
    /\ refresh.todo = <<>>
    /\ refresh' =
          IF refresh.pc = "jd_pdf"
          THEN [pc |-> "jd_txt", todo |-> Stems(jd_folder.txt)]
          ELSE IF refresh.pc = "jd_txt"
          THEN [pc |-> "load_resume", todo |-> <<>>]
          ELSE IF refresh.pc = "resume_pdf"
          THEN [pc |-> "resume_txt", todo |-> Stems(resume_folder.txt)]
          ELSE [pc |-> "idle", todo |-> <<>>]
    /\ env' = Returned(env, refresh', jd_cache, resume_cache)
    /\ UNCHANGED <<folderVars, jd_cache, resume_cache, genVars, config_has_llm>>

RefreshStep ==
    \/ ClearJdCache
    \/ ClearResumeCache
    \/ EnterLoadJd
    \/ EnterLoadResume
    \/ LoadNextFile
    \/ EndLoadLoop

----------------------------------------------------------------------------
(* Router.analyze_jd, from one point where other threads can run to the next *)

Verbosity == {FALSE}

otherVars == <<folderVars, cacheVars, config_has_llm, env, extraction, main, ui>>

\* analyze_jd(jd_name, verbose) is called: the generator object is created,
\* none of its body has run.
Call(b, jd_name, verbose) ==
    /\ gen[b].pc = "idle"
    /\ gen' = [gen EXCEPT ![b] = [@ EXCEPT !.pc = "start",
                                           !.jd_name = jd_name,
                                           !.verbose = verbose]]
    /\ UNCHANGED <<events, llm_calls, otherVars>>

\* jd_content = self.cache_manager.get_jd_content(jd_name); if not jd_content
GetJdContent(b) ==
    /\ gen[b].pc = "start"
    /\ LET c == get_jd_content(jd_cache, gen[b].jd_name)
       IN gen' = [gen EXCEPT ![b] =
                    [@ EXCEPT !.jd_content = c,
                              !.pc = IF JdMissing(c) THEN "jd_missing"
                                     ELSE "get_names"]]
    /\ UNCHANGED <<events, llm_calls, otherVars>>

\* available_jds = self.get_available_jds(); raise ValueError(...)
RaiseNotFound(b) ==
    /\ gen[b].pc = "jd_missing"
    /\ gen' = [gen EXCEPT ![b] =
                 [@ EXCEPT !.pc = "raised",
                           !.error = Some(NotFoundError(gen[b].jd_name,
                                            get_available_jds(jd_cache)))]]
    /\ UNCHANGED <<events, llm_calls, otherVars>>

\* resume_names = self.cache_manager.get_all_resume_names(); if not resume_names
GetResumeNames(b) ==
    /\ gen[b].pc = "get_names"
    /\ LET names == get_all_resume_names(resume_cache)
       IN gen' = [gen EXCEPT ![b] =
                    IF NoResumes(names)
                    THEN [@ EXCEPT !.pc = "raised",
                                   !.error = Some(NoResumesError)]
                    ELSE [@ EXCEPT !.pc = "loop",
                                   !.resume_names = names,
                                   !.i = 1,
                                   !.results_list = <<>>]]
    /\ UNCHANGED <<events, llm_calls, otherVars>>

\* The head of one loop iteration: the content is fetched; without content
\* the error record is appended and yielded; with content analyze_resume runs
\* up to Agent.run.
NextResume(b) ==
    /\ gen[b].pc = "loop"
    /\ gen[b].i <= Len(LoopFrame(gen[b], resume_cache).resume_names)
    /\ LET g == LoopFrame(OwnFrame(gen, b), resume_cache)
           resume_name == g.resume_names[g.i]
           resume_content == get_resume_content(resume_cache, resume_name)
           early == analyze_resume_before_run(config_has_llm)
       IN IF HasContent(resume_content)
          THEN IF early.raised
               THEN /\ gen' = [gen EXCEPT ![b] =
                                 OnAnalyzeException(g, events[b], early.msg).g]
                    /\ events' = [events EXCEPT ![b] =
                                 OnAnalyzeException(g, events[b], early.msg).evs]
                    /\ UNCHANGED llm_calls
               ELSE /\ gen' = [gen EXCEPT ![b] = [g EXCEPT !.pc = "awaiting"]]
                    /\ llm_calls' = [llm_calls EXCEPT ![b] = Append(@, resume_name)]
                    /\ UNCHANGED events
          ELSE /\ gen' = [gen EXCEPT ![b] = OnNoContent(g, events[b]).g]
               /\ events' = [events EXCEPT ![b] = OnNoContent(g, events[b]).evs]
               /\ UNCHANGED llm_calls
    /\ UNCHANGED otherVars

\* Agent.run returns or raises; the rest of analyze_resume and of the loop
\* iteration follow.
RunReturns(b, outcome) ==
    /\ gen[b].pc = "awaiting"
    /\ LET g == LoopFrame(OwnFrame(gen, b), resume_cache)
           r == analyze_resume(outcome)
           next == IF r.raised THEN OnAnalyzeException(g, events[b], r.msg)
                   ELSE OnAnalyzeResult(g, events[b], r.result)
       IN /\ gen' = [gen EXCEPT ![b] = next.g]
          /\ events' = [events EXCEPT ![b] = next.evs]
    /\ UNCHANGED <<llm_calls, otherVars>>

\* The end of the loop with the statistics taken over the records of every
\* batch of the Router.
FinishCountingAll(b) ==
    /\ gen[b].pc = "loop"
    /\ gen[b].i > Len(gen[b].resume_names)
    /\ LET g == gen[b]
           other == CHOOSE c \in BatchIds : c /= b
           table_data == generate_table(g.results_list, g.verbose)
           statistics == calculate_statistics(g.results_list \o gen[other].results_list)
       IN /\ gen' = [gen EXCEPT ![b] = [g EXCEPT !.pc = "final"]]
          /\ events' = [events EXCEPT ![b] =
                          Append(@, FinalEvent(g.jd_name, g.results_list,
                                               table_data, statistics))]
    /\ UNCHANGED <<llm_calls, otherVars>>

\* After the loop: the table, the statistics and the final yield.
Finish(b) ==
    /\ gen[b].pc = "loop"
    /\ gen[b].i > Len(LoopFrame(gen[b], resume_cache).resume_names)
    /\ LET g == LoopFrame(OwnFrame(gen, b), resume_cache)
           table_data == generate_table(g.results_list, g.verbose)
           statistics == calculate_statistics(g.results_list)
       IN IF statistics.match_rate.raised
          THEN /\ gen' = [gen EXCEPT ![b] =
                            [g EXCEPT !.pc = "raised",
                                      !.error = Some([type |-> "ZeroDivisionError",
                                                      text |-> <<"division by zero">>,
                                                      available |-> <<>>])]]
               /\ UNCHANGED events
          ELSE /\ gen' = [gen EXCEPT ![b] = [g EXCEPT !.pc = "final"]]
               /\ events' = [events EXCEPT ![b] =
                               Append(@, FinalEvent(g.jd_name, g.results_list,
                                                    table_data, statistics))]
    /\ UNCHANGED <<llm_calls, otherVars>>

\* The generator is resumed after its final yield and returns.
Return(b) ==
    /\ gen[b].pc = "final"
    /\ gen' = [gen EXCEPT ![b] = [@ EXCEPT !.pc = "done"]]
    /\ UNCHANGED <<events, llm_calls, otherVars>>

----------------------------------------------------------------------------
(* One batch next to uploads, deletions and refreshes *)

Next ==
    \/ \E jd_name \in JdNames, verbose \in Verbosity : Call("b1", jd_name, verbose)
    \/ GetJdContent("b1")
    \/ RaiseNotFound("b1")
    \/ GetResumeNames("b1")
    \/ NextResume("b1")
    \/ \E outcome \in RunOutcomes : RunReturns("b1", outcome)
    \/ Finish("b1")
    \/ Return("b1")
    \/ \E file \in ResumeUploads : Upload(file)
    \/ \E stem \in ResumeNames : DeleteResumeFile(stem)
    \/ RefreshCall
    \/ RefreshStep

Spec == Init /\ [][Next]_vars

\* A step of the generator of batch b: its consumer resumes it, or the model
\* call it awaits returns or fails.
GenStep(b) ==
    \/ GetJdContent(b)
    \/ RaiseNotFound(b)
    \/ GetResumeNames(b)
    \/ NextResume(b)
    \/ \E outcome \in RunOutcomes : RunReturns(b, outcome)
    \/ Finish(b)
    \/ Return(b)

----------------------------------------------------------------------------
(* The cache alone: construction, uploads, deletions and refreshes *)

CacheInit ==
    /\ jd_folder \in CacheJdFolders
    /\ resume_folder \in CacheResumeFolders
    /\ jd_cache = Construct(jd_folder, resume_folder).jd_cache
    /\ resume_cache = Construct(jd_folder, resume_folder).resume_cache
    /\ refresh = [pc |-> "idle", todo |-> <<>>]
    /\ gen = [b \in BatchIds |-> NewFrame]
    /\ events = [b \in BatchIds |-> <<>>]
    /\ llm_calls = [b \in BatchIds |-> <<>>]
    /\ config_has_llm = TRUE
    /\ env = [NewEnv EXCEPT !.observing = TRUE]
    /\ extraction = IdleExtraction
    /\ main = IdleMain
    /\ ui = IdleUi

CacheNext ==
    \/ \E file \in CacheUploads :
          UploadWithin(file, MaxCacheChanges, MaxCacheRefreshes)
    \/ \E stem \in CacheResumeNames :
          DeleteResumeFileWithin(stem, MaxCacheChanges)
    \/ RefreshCallWithin(MaxCacheRefreshes)
    \/ RefreshStep

CacheSpec == CacheInit /\ [][CacheNext]_vars

----------------------------------------------------------------------------
(* The extractor alone: one reply of the model, parsed *)

ExtractInit ==
    /\ jd_folder = NoFolder
    /\ resume_folder = NoFolder
    /\ jd_cache = Construct(jd_folder, resume_folder).jd_cache
    /\ resume_cache = Construct(jd_folder, resume_folder).resume_cache
    /\ refresh = [pc |-> "idle", todo |-> <<>>]
    /\ gen = [b \in BatchIds |-> NewFrame]
    /\ events = [b \in BatchIds |-> <<>>]
    /\ llm_calls = [b \in BatchIds |-> <<>>]
    /\ config_has_llm = TRUE
    /\ env = NewEnv
    /\ extraction \in { [IdleExtraction EXCEPT !.pc = "called", !.output_text = t] :
                           t \in ParserInputs }
    /\ main = IdleMain
    /\ ui = IdleUi

\* result = self._parse_output_to_analysis_result(output_text)
ParseOutput(internal_error) ==
    /\ extraction.pc = "called"
    /\ extraction' =
          [extraction EXCEPT
              !.pc = "returned",
              !.internal_error = internal_error,
              !.parsed = Some(parse_output_to_analysis_result(
                                 extraction.output_text, internal_error))]
    /\ UNCHANGED <<folderVars, cacheVars, gen, events, llm_calls,
                   config_has_llm, env, main, ui>>

ExtractNext == \E internal_error \in BOOLEAN : ParseOutput(internal_error)

ExtractSpec == ExtractInit /\ [][ExtractNext]_vars

----------------------------------------------------------------------------
(* Two batches on one Router and one cache, the cache left alone *)

PairJdFolders ==
    { NoFolder,
      Folder(<<>>, <<TxtFile("qa", RawText), TxtFile("backend_eng", RawText)>>) }

PairResumeFolders ==
    { Folder(<<>>, <<>>),
      Folder(<<>>, <<TxtFile("alice", RawText), TxtFile("bob", RawText)>>),
      Folder(<<PdfFile("bob", Pages)>>, <<TxtFile("alice", RawText)>>) }

PairJdNames == {"qa", "ml"}

PairResumeNames == {"alice", "bob"}

\* What Agent.run produces for each resume in each batch: env.reply[b][name].
Replies == [BatchIds -> [PairResumeNames -> RunOutcomes]]

PairInit ==
    /\ jd_folder \in PairJdFolders
    /\ resume_folder \in PairResumeFolders
    /\ jd_cache = Construct(jd_folder, resume_folder).jd_cache
    /\ resume_cache = Construct(jd_folder, resume_folder).resume_cache
    /\ refresh = [pc |-> "idle", todo |-> <<>>]
    /\ gen = [b \in BatchIds |-> NewFrame]
    /\ events = [b \in BatchIds |-> <<>>]
    /\ llm_calls = [b \in BatchIds |-> <<>>]
    /\ config_has_llm = TRUE
    /\ env \in {[NewEnv EXCEPT !.reply = r] : r \in Replies}
    /\ extraction = IdleExtraction
    /\ main = IdleMain
    /\ ui = IdleUi

\* Agent.run returns or raises what it does for this resume in this batch.
ReplyArrives(b) ==
    /\ gen[b].pc = "awaiting"
    /\ RunReturns(b, env.reply[b][gen[b].resume_names[gen[b].i]])

PairNext ==
    \E b \in BatchIds :
        \/ \E jd_name \in PairJdNames, verbose \in Verbosity : Call(b, jd_name, verbose)
        \/ GetJdContent(b)
        \/ RaiseNotFound(b)
        \/ GetResumeNames(b)
        \/ NextResume(b)
        \/ ReplyArrives(b)
        \/ Finish(b)
        \/ Return(b)

PairSpec == PairInit /\ [][PairNext]_vars

----------------------------------------------------------------------------
(* The command-line entry point: main() of main.py *)

\* args after parse_args(): --list, --stats, --jd NAME.
CliArgs ==
    { [list |-> TRUE, stats |-> FALSE, jd |-> None],
      [list |-> FALSE, stats |-> TRUE, jd |-> None],
      [list |-> FALSE, stats |-> FALSE, jd |-> None] }
    \cup { [list |-> FALSE, stats |-> FALSE, jd |-> Some(n)] : n \in JdNames }

\* What a call of Router.analyze_jd returns: the function holds yield, so the
\* call runs none of its body and returns a generator object.
GeneratorObject(b) == [kind |-> "generator", batch |-> b]

NotSubscriptableMsg == "'generator' object is not subscriptable"

\* Router.print_summary: analysis_result['table'] is evaluated first; for a
\* dict the table lines and the statistics are printed.
print_summary(analysis_result) ==
    IF analysis_result.kind = "generator"
    THEN [raised |-> TRUE, msg |-> NotSubscriptableMsg, printed |-> <<>>]
    ELSE [raised |-> FALSE, msg |-> "",
          printed |-> <<analysis_result.table, analysis_result.statistics>>]

CliInit ==
    /\ jd_folder \in JdFolders
    /\ resume_folder \in ResumeFolders
    /\ jd_cache = Construct(jd_folder, resume_folder).jd_cache
    /\ resume_cache = Construct(jd_folder, resume_folder).resume_cache
    /\ refresh = [pc |-> "idle", todo |-> <<>>]
    /\ gen = [b \in BatchIds |-> NewFrame]
    /\ events = [b \in BatchIds |-> <<>>]
    /\ llm_calls = [b \in BatchIds |-> <<>>]
    /\ config_has_llm = FALSE
    /\ env = NewEnv
    /\ extraction = IdleExtraction
    /\ main \in {[IdleMain EXCEPT !.pc = "parsed", !.args = Some(a)] : a \in CliArgs}
    /\ ui = IdleUi

cliFrame == <<folderVars, cacheVars, events, llm_calls, config_has_llm, env,
              extraction, ui>>

\* if args.list: print the keys; return
MainList ==
    /\ main.pc = "parsed"
    /\ main.args[1].list
    /\ main' = [main EXCEPT !.pc = "exited", !.exit_code = Some(0),
                            !.printed = <<Sorted(get_available_jds(jd_cache))>>]
    /\ UNCHANGED <<cliFrame, gen>>

\* if args.stats: print the cache statistics; return
MainStats ==
    /\ main.pc = "parsed"
    /\ ~main.args[1].list
    /\ main.args[1].stats
    /\ main' = [main EXCEPT !.pc = "exited", !.exit_code = Some(0),
                            !.printed = <<get_cache_stats(jd_cache, resume_cache)>>]
    /\ UNCHANGED <<cliFrame, gen>>

\* if not args.jd and not args.list and not args.stats: sys.exit(1)
MainNoJd ==
    /\ main.pc = "parsed"
    /\ ~main.args[1].list
    /\ ~main.args[1].stats
    /\ main.args[1].jd = None
    /\ main' = [main EXCEPT !.pc = "exited", !.exit_code = Some(1),
                            !.printed = <<"Error: --jd argument is required when not using --list or --stats.">>]
    /\ UNCHANGED <<cliFrame, gen>>

\* result = router.analyze_jd(args.jd)
MainAnalyze ==
    /\ main.pc = "parsed"
    /\ ~main.args[1].list
    /\ ~main.args[1].stats
    /\ main.args[1].jd /= None
    /\ gen' = [gen EXCEPT !["b1"] = [@ EXCEPT !.pc = "start",
                                              !.jd_name = main.args[1].jd[1],
                                              !.verbose = TRUE]]
    /\ main' = [main EXCEPT !.pc = "have_result",
                            !.result = Some(GeneratorObject("b1"))]
    /\ UNCHANGED cliFrame

\* router.print_summary(result), inside try ... except Exception as e:
\* print(f"Error: {e}", file=sys.stderr); sys.exit(1)
MainPrintSummary ==
    /\ main.pc = "have_result"
    /\ LET p == print_summary(main.result[1])
       IN main' = IF p.raised
                  THEN [main EXCEPT !.pc = "exited", !.exit_code = Some(1),
                                    !.printed = <<"Error: ", p.msg>>]
                  ELSE [main EXCEPT !.pc = "exited", !.exit_code = Some(0),
                                    !.printed = p.printed]
    /\ UNCHANGED <<cliFrame, gen>>

CliNext ==
    \/ MainList
    \/ MainStats
    \/ MainNoJd
    \/ MainAnalyze
    \/ MainPrintSummary

CliSpec == CliInit /\ [][CliNext]_vars

-----------------------------------------------------------------------------
(* The dashboard's Analyze action: on_analyze over HRUIManager.analyze_jd *)

\* The value of the job-description dropdown when Analyze is pressed.
UiJdChoices == PairJdNames \cup {""}

UiInit ==
    /\ jd_folder \in PairJdFolders
    /\ resume_folder \in PairResumeFolders
    /\ jd_cache = Construct(jd_folder, resume_folder).jd_cache
    /\ resume_cache = Construct(jd_folder, resume_folder).resume_cache
    /\ refresh = [pc |-> "idle", todo |-> <<>>]
    /\ gen = [b \in BatchIds |-> NewFrame]
    /\ events = [b \in BatchIds |-> <<>>]
    /\ llm_calls = [b \in BatchIds |-> <<>>]
    /\ config_has_llm \in BOOLEAN
    /\ env = NewEnv
    /\ extraction = IdleExtraction
    /\ main = IdleMain
    /\ ui = IdleUi

uiFrame == <<folderVars, cacheVars, events, llm_calls, config_has_llm, env,
             extraction, main>>

\* What one pass over ui_manager.analyze_jd(jd_name) has yielded so far: one
\* tuple per event of the router's generator, and one error tuple when the
\* generator raised (except Exception as e: ... yield error_msg, ...).
Yielded(b) == Len(events[b]) + (IF gen[b].pc = "raised" THEN 1 ELSE 0)

\* The router's generator of one pass is exhausted or has raised.
PassOver(b) == gen[b].pc \in {"done", "raised"}

\* The handler starts: its first yield disables the controls.
OnAnalyze(jd_name) ==
    /\ ui.pc = "idle"
    /\ ui' = [ui EXCEPT !.pc = "clicked", !.jd_name = jd_name, !.updates = 1]
    /\ UNCHANGED <<uiFrame, gen>>

\* if not jd_name or jd_name == "No job descriptions available": yield; return
OnAnalyzeNoJd ==
    /\ ui.pc = "clicked"
    /\ ui.jd_name = ""
    /\ ui' = [ui EXCEPT !.pc = "done", !.updates = @ + 1]
    /\ UNCHANGED <<uiFrame, gen>>

\* total = 0; for _ in ui_manager.analyze_jd(jd_name): the first generator
\* is created: self.router.analyze_jd(jd_name, verbose=False).
StartCounting ==
    /\ ui.pc = "clicked"
    /\ ui.jd_name /= ""
    /\ gen' = [gen EXCEPT !["b1"] = [@ EXCEPT !.pc = "start",
                                              !.jd_name = ui.jd_name,
                                              !.verbose = FALSE]]
    /\ ui' = [ui EXCEPT !.pc = "counting", !.total = 0]
    /\ UNCHANGED uiFrame

\* The first generator runs up to its next yield.
CountingStep ==
    /\ ui.pc = "counting"
    /\ ui.total = Yielded("b1")
    /\ GenStep("b1")

\* total += 1
CountTotal ==
    /\ ui.pc = "counting"
    /\ ui.total < Yielded("b1")
    /\ ui' = [ui EXCEPT !.total = @ + 1]
    /\ UNCHANGED <<uiFrame, gen>>

\* processed = 0; for table_html, ... in ui_manager.analyze_jd(jd_name): the
\* second generator is created.
StartShowing ==
    /\ ui.pc = "counting"
    /\ PassOver("b1")
    /\ ui.total = Yielded("b1")
    /\ gen' = [gen EXCEPT !["b2"] = [@ EXCEPT !.pc = "start",
                                              !.jd_name = ui.jd_name,
                                              !.verbose = FALSE]]
    /\ ui' = [ui EXCEPT !.pc = "showing", !.processed = 0]
    /\ UNCHANGED uiFrame

\* The second generator runs up to its next yield.
ShowingStep ==
    /\ ui.pc = "showing"
    /\ ui.processed = Yielded("b2")
    /\ GenStep("b2")

\* processed += 1; ...; yield gr.update(visible=True, value=df_rows), ...
Show ==
    /\ ui.pc = "showing"
    /\ ui.processed < Yielded("b2")
    /\ ui' = [ui EXCEPT !.processed = @ + 1, !.updates = @ + 1]
    /\ UNCHANGED <<uiFrame, gen>>

\* The last yield of the handler enables the controls again.
EndShowing ==
    /\ ui.pc = "showing"
    /\ PassOver("b2")
    /\ ui.processed = Yielded("b2")
    /\ ui' = [ui EXCEPT !.pc = "done", !.updates = @ + 1]
    /\ UNCHANGED <<uiFrame, gen>>

UiNext ==
    \/ \E jd_name \in UiJdChoices : OnAnalyze(jd_name)
    \/ OnAnalyzeNoJd
    \/ StartCounting
    \/ CountingStep
    \/ CountTotal
    \/ StartShowing
    \/ ShowingStep
    \/ Show
    \/ EndShowing

UiSpec == UiInit /\ [][UiNext]_vars

----------------------------------------------------------------------------
(* Vocabulary of the properties *)

Last(q) == q[Len(q)]

ResumeNamesOf(results) == [k \in 1..Len(results) |-> results[k].resume_name]

IsFinalEvent(e) == e.resume_name = None

Finished(b) == gen[b].pc \in {"final", "done"}

Rank(name) == CHOOSE k \in 1..Len(NameOrder) : NameOrder[k] = name

\* A message the provider or the analyzer raises once Agent.run was invoked.
RunFailureMsgs == {"Request timed out.", "No output found in agent result"}

\* The generator of batch b takes a step.
Steps(b) == gen'[b] /= gen[b]

----------------------------------------------------------------------------
\* C1: when a batch has yielded its final event, that event's records are one
\* per name of the list get_all_resume_names returned at batch start, and
\* their resume_name fields are that list, in its order.
C1_OneRecordPerCandidateInOrder ==
    \A b \in BatchIds :
        Finished(b) =>
            /\ events[b] /= <<>>
            /\ IsFinalEvent(Last(events[b]))
            /\ ResumeNamesOf(Last(events[b]).payload.results) = gen[b].resume_names

\* A batch of three candidates, in an order that is not the sorted one, with
\* successes and failures among them, has yielded its final event.
C1_Witness ==
    /\ gen["b1"].pc = "done"
    /\ gen["b1"].resume_names = <<"carol", "alice", "bob">>
    /\ \E j, k \in 1..3 :
          /\ gen["b1"].results_list[j].status = "SUCCESS"
          /\ gen["b1"].results_list[k].status = "ERROR"

----------------------------------------------------------------------------
\* C2: a failed model call does not abort the batch: the generator raises only
\* before any record exists, the candidate of a failed call gets an ERROR
\* record whose summary carries the exception's message, and the loop goes on
\* with the next name of the snapshot, none skipped.
C2_FailureIsolated ==
    \A b \in BatchIds :
        LET g == gen[b]
        IN /\ g.pc = "raised" => (g.results_list = <<>> /\ events[b] = <<>>)
           /\ g.pc \in {"loop", "awaiting"} => g.i = Len(g.results_list) + 1
           /\ \A k \in 1..Len(g.results_list) :
                LET r == g.results_list[k]
                IN /\ r.resume_name = g.resume_names[k]
                   /\ (r.resume_name \in Range(llm_calls[b]) /\ r.status = "ERROR")
                        => /\ Len(r.summary) = 4
                           /\ r.summary[1] = "Error analyzing "
                           /\ r.summary[2] = r.resume_name
                           /\ r.summary[4] \in RunFailureMsgs
                   /\ r.status \in {"SUCCESS", "ERROR"}

\* alice's call timed out, bob's succeeded: two records, ERROR then SUCCESS,
\* and statistics 2 analysed, 1 error, 1 successful.
C2_Witness ==
    /\ gen["b1"].pc = "done"
    /\ gen["b1"].resume_names = <<"alice", "bob">>
    /\ llm_calls["b1"] = <<"alice", "bob">>
    /\ LET final == Last(events["b1"]).payload
       IN /\ Len(final.results) = 2
          /\ final.results[1].status = "ERROR"
          /\ final.results[1].summary = <<"Error analyzing ", "alice", ": ",
                                          "Request timed out.">>
          /\ final.results[1].candidate_name = Unknown
          /\ final.results[1].match = FALSE
          /\ final.results[2].status = "SUCCESS"
          /\ final.statistics.total_analyzed = 2
          /\ final.statistics.total_errors = 1
          /\ final.statistics.total_successful = 1

----------------------------------------------------------------------------
\* C3: when the requested job description is not in the cache, the generator
\* raises an error that names the request and lists the cached job-description
\* names, sorted; no model call was made, nothing was recorded or yielded, and
\* nothing is afterwards.
C3_Step(b) ==
    LET g == gen[b]
        h == gen'[b]
    IN /\ (g.pc = "start" /\ Steps(b) /\ ~HasKey(jd_cache, g.jd_name))
            => h.pc = "jd_missing"
       /\ (g.pc = "jd_missing" /\ Steps(b))
            => /\ h.pc = "raised"
               /\ h.error /= None
               /\ h.error[1].type = "ValueError"
               /\ h.error[1].text = <<"Job description '", g.jd_name,
                                      "' not found. Available: ">>
               /\ Range(h.error[1].available) = {jd_cache[k].k : k \in 1..Len(jd_cache)}
               /\ \A j, k \in 1..Len(h.error[1].available) :
                     j < k => Rank(h.error[1].available[j]) < Rank(h.error[1].available[k])
               /\ events'[b] = <<>>
               /\ llm_calls'[b] = <<>>
               /\ h.results_list = <<>>
       /\ g.pc = "raised"
            => (h = g /\ events'[b] = events[b] /\ llm_calls'[b] = llm_calls[b])

C3_NotFoundRaises == [][\A b \in BatchIds : C3_Step(b)]_vars

\* The request "ml" was not in a cache that held two job descriptions, loaded
\* in another order than the sorted one, and the generator raised.
C3_Witness ==
    /\ gen["b1"].pc = "raised"
    /\ gen["b1"].jd_name = "ml"
    /\ gen["b1"].error[1].text[1] = "Job description '"
    /\ gen["b1"].error[1].available = <<"backend_eng", "qa">>
    /\ Keys(jd_cache) = <<"qa", "backend_eng">>
    /\ env.refreshes = 0

----------------------------------------------------------------------------
\* C4: when the job description is found and the candidate mapping is empty at
\* batch start, the generator raises; no model call was made and nothing was
\* yielded, and nothing is afterwards.
C4_Step(b) ==
    LET g == gen[b]
        h == gen'[b]
    IN /\ (g.pc = "get_names" /\ Steps(b) /\ resume_cache = <<>>)
            => /\ h.pc = "raised"
               /\ h.error /= None
               /\ h.error[1].type = "ValueError"
               /\ h.error[1].text = <<"No resumes found in cache.">>
               /\ events'[b] = <<>>
               /\ llm_calls'[b] = <<>>
       /\ g.pc = "get_names" => Truthy(g.jd_content)
       /\ g.pc = "raised"
            => (h = g /\ events'[b] = events[b] /\ llm_calls'[b] = llm_calls[b])

C4_NoCandidatesRaises == [][\A b \in BatchIds : C4_Step(b)]_vars

\* A batch whose job description was found raised for want of resumes.
C4_Witness ==
    /\ gen["b1"].pc = "raised"
    /\ Truthy(gen["b1"].jd_content)
    /\ gen["b1"].error[1].text = <<"No resumes found in cache.">>
    /\ events["b1"] = <<>>

----------------------------------------------------------------------------
\* C5: once the validation has passed the generator does not raise: it yields
\* one progress event per candidate of the snapshot, then the final event, and
\* then ends.  Termination is stated as: until it has ended the generator
\* always has a next step (its consumer resumes it, the model call returns or
\* fails), and each of its steps lowers a measure that is bounded below.
InLoop(b) == gen[b].pc \in {"loop", "awaiting"}

C5_Shape(b) ==
    LET g == gen[b]
        n == Len(g.resume_names)
    IN /\ g.pc = "raised"
            => /\ g.error[1].type = "ValueError"
               /\ g.resume_names = <<>>
               /\ events[b] = <<>>
       /\ InLoop(b)
            => /\ n > 0
               /\ Len(events[b]) = g.i - 1
               /\ g.i <= n + 1
               /\ g.pc = "awaiting" => g.i <= n
               /\ \A k \in 1..Len(events[b]) : ~IsFinalEvent(events[b][k])
       /\ Finished(b)
            => /\ Len(events[b]) = n + 1
               /\ \A k \in 1..n : ~IsFinalEvent(events[b][k])
               /\ IsFinalEvent(events[b][n + 1])

\* Steps left, at most, before the generator has ended.
C5_Measure(g) ==
    IF g.pc = "done" THEN 0
    ELSE IF g.pc = "final" THEN 1
    ELSE 2 + 2 * (Len(g.resume_names) + 1 - g.i)
           - (IF g.pc = "awaiting" THEN 1 ELSE 0)

C5_Step(b) ==
    (Steps(b) /\ (InLoop(b) \/ gen[b].pc = "final"))
       => /\ gen'[b].pc \in {"loop", "awaiting", "final", "done"}
          /\ C5_Measure(gen'[b]) < C5_Measure(gen[b])
          /\ C5_Measure(gen'[b]) >= 0

C5_RunsToCompletion ==
    /\ [](\A b \in BatchIds :
            /\ C5_Shape(b)
            /\ (InLoop(b) \/ gen[b].pc = "final") => ENABLED GenStep(b))
    /\ [][\A b \in BatchIds : C5_Step(b)]_vars

\* A batch in which every model call failed, and a resume had vanished from
\* the cache, has ended after its final event.
C5_Witness ==
    /\ gen["b1"].pc = "done"
    /\ Len(gen["b1"].resume_names) = 3
    /\ Len(events["b1"]) = 4
    /\ \A k \in 1..3 : gen["b1"].results_list[k].status = "ERROR"
    /\ llm_calls["b1"] /= <<>>
    /\ Len(llm_calls["b1"]) < 3

----------------------------------------------------------------------------
\* C6: the k-th progress event carries the name of the k-th candidate of the
\* snapshot and a list of exactly k records, the last of which is the record
\* of that candidate; there is one progress event per processed candidate.
C6_ProgressEvents ==
    \A b \in BatchIds :
        LET g == gen[b]
        IN /\ InLoop(b) => Len(events[b]) = Len(g.results_list)
           /\ \A k \in 1..Len(events[b]) :
                k <= Len(g.resume_names)
                  => /\ events[b][k].resume_name = Some(g.resume_names[k])
                     /\ Len(events[b][k].payload) = k
                     /\ events[b][k].payload[k].resume_name = g.resume_names[k]
                     /\ events[b][k].payload[k] = g.results_list[k]

\* Three progress events, the second for an error, the third for a success.
C6_Witness ==
    /\ gen["b1"].pc = "loop"
    /\ Len(events["b1"]) = 3
    /\ events["b1"][2].payload[2].status = "ERROR"
    /\ events["b1"][3].payload[3].status = "SUCCESS"
    /\ events["b1"][3].resume_name = Some("bob")

----------------------------------------------------------------------------
\* C7: after the last progress event there is exactly one final event: its
\* name component is None and its first component carries jd_name, the
\* complete records list and the statistics; no progress event has the name
\* None and nothing is yielded after the final event.
C7_FinalEvent ==
    \A b \in BatchIds :
        LET g == gen[b]
            n == Len(g.resume_names)
        IN /\ ~Finished(b)
                => \A k \in 1..Len(events[b]) : events[b][k].resume_name /= None
           /\ Finished(b)
                => /\ Len(events[b]) = n + 1
                   /\ \A k \in 1..n : events[b][k].resume_name /= None
                   /\ events[b][n + 1].resume_name = None
                   /\ events[b][n + 1].payload.jd_name = g.jd_name
                   /\ events[b][n + 1].payload.results = g.results_list
                   /\ Len(events[b][n + 1].payload.results) = n
                   /\ events[b][n + 1].payload.results = events[b][n].payload
                   /\ events[b][n + 1].payload.statistics.total_analyzed = n

\* The generator has returned after the final event of a batch of two.
C7_Witness ==
    /\ gen["b1"].pc = "done"
    /\ Len(events["b1"]) = 3
    /\ events["b1"][3].resume_name = None
    /\ events["b1"][3].payload.jd_name = "qa"
    /\ Len(events["b1"][3].payload.results) = 2

----------------------------------------------------------------------------
\* C8: in every final result total_successful + total_errors = total_analyzed,
\* and total_analyzed is the number of records of the batch.
C8_StatisticsAddUp ==
    \A b \in BatchIds :
        \A k \in 1..Len(events[b]) :
            IsFinalEvent(events[b][k])
              => LET st == events[b][k].payload.statistics
                 IN /\ st.total_successful + st.total_errors = st.total_analyzed
                    /\ st.total_analyzed = Len(events[b][k].payload.results)
                    /\ st.total_analyzed = Len(gen[b].resume_names)

\* A final result with a successful record that is no match, a successful
\* match and an error.
C8_Witness ==
    /\ Finished("b1")
    /\ LET final == Last(events["b1"]).payload
       IN /\ final.statistics.total_analyzed = 3
          /\ final.statistics.total_errors = 1
          /\ final.statistics.total_successful = 2
          /\ final.statistics.successful_matches = 1

----------------------------------------------------------------------------
\* C9: match_rate is successful_matches / total_successful * 100 when
\* total_successful > 0 and 0 when total_successful = 0, and computing it
\* never fails: no batch ends in an arithmetic error.
C9_MatchRate ==
    \A b \in BatchIds :
        /\ gen[b].pc = "raised" => gen[b].error[1].type = "ValueError"
        /\ (gen[b].pc = "loop" /\ gen[b].i > Len(gen[b].resume_names))
              => ~calculate_statistics(gen[b].results_list).match_rate.raised
        /\ \A k \in 1..Len(events[b]) :
              IsFinalEvent(events[b][k])
                => LET st == events[b][k].payload.statistics
                       rate == st.match_rate
                   IN /\ ~rate.raised
                      /\ rate.den > 0
                      /\ st.total_successful > 0
                           => rate.num * st.total_successful
                                = st.successful_matches * 100 * rate.den
                      /\ st.total_successful = 0 => rate.num = 0

\* A final result of a batch in which every candidate ended in ERROR.
C9_Witness ==
    /\ Finished("b1")
    /\ LET st == Last(events["b1"]).payload.statistics
       IN /\ st.total_successful = 0
          /\ st.total_errors = 2
          /\ st.match_rate.num = 0

----------------------------------------------------------------------------
\* C10: when the content of the candidate whose turn it is is absent from the
\* cache, the loop appends an ERROR record whose summary says the content
\* could not be retrieved, and Agent.run is not invoked for that candidate.
C10_Step(b) ==
    LET g == gen[b]
        h == gen'[b]
    IN (/\ g.pc = "loop"
        /\ g.i <= Len(g.resume_names)
        /\ Steps(b)
        /\ ~HasKey(resume_cache, g.resume_names[g.i]))
       => /\ llm_calls'[b] = llm_calls[b]
          /\ h.pc = "loop"
          /\ h.i = g.i + 1
          /\ Len(h.results_list) = Len(g.results_list) + 1
          /\ SubSeq(h.results_list, 1, Len(g.results_list)) = g.results_list
          /\ Last(h.results_list).resume_name = g.resume_names[g.i]
          /\ Last(h.results_list).status = "ERROR"
          /\ Last(h.results_list).summary =
                <<"Could not retrieve content for ", g.resume_names[g.i]>>
          /\ Last(events'[b]).payload = h.results_list

C10_AbsentContentIsError == [][\A b \in BatchIds : C10_Step(b)]_vars

\* A candidate of the snapshot got the record saying its content could not be
\* retrieved, and the model was not called for it.
C10_Witness ==
    /\ config_has_llm
    /\ \E k \in 1..Len(gen["b1"].results_list) :
          /\ gen["b1"].results_list[k].status = "ERROR"
          /\ gen["b1"].results_list[k].summary[1] = "Could not retrieve content for "
          /\ gen["b1"].resume_names[k] \notin Range(llm_calls["b1"])

----------------------------------------------------------------------------
\* C11: a name of the snapshot that the cache no longer holds when its turn
\* comes, refresh_cache having run since the snapshot was taken, gets an ERROR
\* record and the batch goes on: the step neither raises nor ends the loop,
\* a batch holding such a record is never in the raised state and can always
\* take its next step, and once finished its final event carries one record
\* for every name of the snapshot, the stale one included.
HasStaleRecord(b) ==
    \E k \in 1..Len(gen[b].results_list) :
        gen[b].results_list[k].summary = NoContentMsg(gen[b].resume_names[k])

C11_Step(b) ==
    LET g == gen[b]
        h == gen'[b]
    IN (/\ g.pc = "loop"
        /\ g.i <= Len(g.resume_names)
        /\ Steps(b)
        /\ env.refreshes > 0
        /\ ~HasKey(resume_cache, g.resume_names[g.i]))
       => /\ h.pc = "loop"
          /\ h.error = None
          /\ h.resume_names = g.resume_names
          /\ h.results_list =
                Append(g.results_list,
                       ErrorRecord(g.resume_names[g.i],
                                   NoContentMsg(g.resume_names[g.i])))

C11_State(b) ==
    /\ gen[b].pc \in {"loop", "awaiting", "final", "done"}
          => \A k \in 1..Len(gen[b].results_list) :
                ~HasKey(resume_cache, gen[b].resume_names[k]) => env.refreshes > 0
    /\ HasStaleRecord(b)
          => /\ gen[b].pc \in {"loop", "awaiting", "final", "done"}
             /\ gen[b].error = None
             /\ gen[b].pc /= "done" => ENABLED GenStep(b)
             /\ Finished(b) =>
                   /\ IsFinalEvent(Last(events[b]))
                   /\ Len(Last(events[b]).payload.results) = Len(gen[b].resume_names)
                   /\ Last(events[b]).payload.results = gen[b].results_list

C11_StaleNameIsolated ==
    /\ [](\A b \in BatchIds : C11_State(b))
    /\ [][\A b \in BatchIds : C11_Step(b)]_vars

\* The file of the second of three candidates was deleted and the cache
\* refreshed while the first was analysed: the batch finished with the
\* retrieval ERROR for the second and a SUCCESS record for the third.
C11_Witness ==
    /\ gen["b1"].pc = "done"
    /\ gen["b1"].resume_names = <<"carol", "alice", "bob">>
    /\ ~HasFile(resume_folder.txt, "alice")
    /\ refresh.pc = "idle"
    /\ env.refreshes = 1
    /\ gen["b1"].results_list[1].status = "SUCCESS"
    /\ gen["b1"].results_list[2] = ErrorRecord("alice", NoContentMsg("alice"))
    /\ gen["b1"].results_list[3].status = "SUCCESS"
    /\ Len(Last(events["b1"]).payload.results) = 3

----------------------------------------------------------------------------
\* C12: the list of names a batch works through is the one it took from the
\* cache before its loop and never changes afterwards, whatever refreshes add,
\* remove or reorder: the records are for the names of that list in its
\* order, Agent.run is invoked for names of that list only, and the final
\* event holds exactly one record per name of it.
PastSnapshot(b) == gen[b].pc \in {"loop", "awaiting", "final", "done"}

C12_State(b) ==
    PastSnapshot(b) =>
        /\ Len(gen[b].results_list) <= Len(gen[b].resume_names)
        /\ ResumeNamesOf(gen[b].results_list) =
              SubSeq(gen[b].resume_names, 1, Len(gen[b].results_list))
        /\ Range(llm_calls[b]) \subseteq Range(gen[b].resume_names)
        /\ Finished(b) =>
              ResumeNamesOf(Last(events[b]).payload.results) = gen[b].resume_names

C12_Step(b) ==
    PastSnapshot(b) =>
        /\ gen'[b].resume_names = gen[b].resume_names
        /\ gen'[b].pc /= "get_names"

C12_SnapshotFixed ==
    /\ [](\A b \in BatchIds : C12_State(b))
    /\ [][\A b \in BatchIds : C12_Step(b)]_vars

\* A batch that began when only bob was cached has finished with the one
\* record for bob, although alice was uploaded and cached, ahead of bob,
\* while it ran.
C12_Witness ==
    /\ gen["b1"].pc = "done"
    /\ gen["b1"].resume_names = <<"bob">>
    /\ refresh.pc = "idle"
    /\ env.refreshes = 1
    /\ Keys(resume_cache) = <<"alice", "bob">>
    /\ ResumeNamesOf(Last(events["b1"]).payload.results) = <<"bob">>
    /\ "alice" \notin Range(llm_calls["b1"])

----------------------------------------------------------------------------
\* C13: refresh_cache is atomic towards readers: as long as the source has
\* not changed since the program started, no candidate whose file yields text
\* is reported as not retrievable and no job description whose file yields
\* text is reported as not found.
C13_RefreshAtomic ==
    env.changes = 0 =>
        \A b \in BatchIds :
            /\ \A k \in 1..Len(gen[b].results_list) :
                  HasKey(Construct(jd_folder, resume_folder).resume_cache,
                         gen[b].results_list[k].resume_name)
                     => gen[b].results_list[k].summary /=
                           NoContentMsg(gen[b].results_list[k].resume_name)
            /\ (gen[b].pc = "raised"
                /\ gen[b].error = Some(NotFoundError(gen[b].jd_name,
                                          gen[b].error[1].available)))
                  => ~HasKey(Construct(jd_folder, resume_folder).jd_cache,
                             gen[b].jd_name)

----------------------------------------------------------------------------
\* C14: in every reachable state of the cache, every name of either mapping
\* maps to a text that is not empty and is trimmed, so a document that is
\* empty after trimming is never cached.
NonEmptyEntries(cache) ==
    \A i \in 1..Len(cache) : cache[i].v /= <<>> /\ Strip(cache[i].v) = cache[i].v

C14_NoEmptyEntries == NonEmptyEntries(jd_cache) /\ NonEmptyEntries(resume_cache)

\* After a refresh, the folder holds a readable resume file of blanks only
\* next to one with text: only the latter is cached.
C14_Witness ==
    /\ refresh.pc = "idle"
    /\ env.refreshes >= 1
    /\ resume_folder.pdf = <<>>
    /\ resume_folder.txt = <<TxtFile("alice", RawBlank), TxtFile("bob", RawText)>>
    /\ Keys(resume_cache) = <<"bob">>
    /\ get_resume_content(resume_cache, "alice") = None

----------------------------------------------------------------------------
\* C15: when a call of refresh_cache returns and the source has not changed
\* since the previous call began, both mappings hold what they held when the
\* previous call returned: the same names with the same texts, in the same
\* order.
C15_Step ==
    (/\ refresh.pc /= "idle"
     /\ refresh'.pc = "idle"
     /\ env.last /= None
     /\ env.last[1].since = env.changes)
    => /\ jd_cache' = env.last[1].jd_cache
       /\ resume_cache' = env.last[1].resume_cache
       /\ env'.last = Some([jd_cache |-> jd_cache', resume_cache |-> resume_cache',
                            since |-> env.started])

C15_RefreshIdempotent == [][C15_Step]_vars

\* refresh_cache was called twice on a source that never changed and holds a
\* job description and two resumes with text: the second call has returned.
C15_Witness ==
    /\ refresh.pc = "idle"
    /\ env.refreshes = 2
    /\ env.changes = 0
    /\ env.last = Some([jd_cache |-> jd_cache, resume_cache |-> resume_cache,
                        since |-> 0])
    /\ Len(jd_cache) = 1
    /\ Len(resume_cache) = 2

----------------------------------------------------------------------------
\* C16: when refresh_cache returns and the source did not change while it
\* ran, each mapping holds exactly the documents the source yields with
\* non-empty text at that moment, under their names and with their trimmed
\* texts: the entry of a removed file is gone, and the mappings equal those of
\* a cache newly constructed on that source.
TextOf(files, stem, read(_)) ==
    IF HasFile(files, stem) THEN read(FileOf(files, stem)) ELSE <<>>

\* The text a folder yields under a name: that of the text file if it has
\* one, else that of the PDF.
Yields(folder, stem) ==
    IF ~folder.exists THEN <<>>
    ELSE IF TextOf(folder.txt, stem, load_text_file) /= <<>>
    THEN TextOf(folder.txt, stem, load_text_file)
    ELSE TextOf(folder.pdf, stem, extract_text_from_pdf)

HoldsTheSource(cache, folder, names) ==
    /\ Range(Keys(cache)) \subseteq names
    /\ Len(cache) = Cardinality(Range(Keys(cache)))
    /\ \A stem \in names :
          DictGet(cache, stem) =
             IF Yields(folder, stem) /= <<>> THEN Some(Yields(folder, stem))
             ELSE None

C16_Step ==
    (/\ refresh.pc /= "idle"
     /\ refresh'.pc = "idle"
     /\ env.started = env.changes)
    => /\ HoldsTheSource(jd_cache', jd_folder', CacheJdNames)
       /\ HoldsTheSource(resume_cache', resume_folder', CacheResumeNames)
       /\ jd_cache' = Construct(jd_folder', resume_folder').jd_cache
       /\ resume_cache' = Construct(jd_folder', resume_folder').resume_cache

C16_RefreshReloads == [][C16_Step]_vars

\* The text file of alice was deleted from a folder that held alice and bob,
\* and a refresh begun after the deletion has returned: bob alone is cached.
C16_Witness ==
    /\ refresh.pc = "idle"
    /\ env.last /= None
    /\ env.changes = 1
    /\ env.started = 1
    /\ resume_folder.pdf = <<>>
    /\ resume_folder.txt = <<TxtFile("bob", RawText)>>
    /\ Keys(resume_cache) = <<"bob">>
    /\ get_resume_content(resume_cache, "alice") = None

----------------------------------------------------------------------------
\* C17: a document whose reading or extraction fails is skipped and the load
\* goes on: after construction and after a refresh on the source as it is,
\* every readable document with text is cached under its name and no
\* unreadable one is, and a refresh in progress can always take its next step
\* whatever the files are.
Readable(files, read(_)) ==
    { files[i].stem : i \in { j \in 1..Len(files) :
                                 files[j].ok /\ read(files[j]) /= <<>> } }

Unreadable(files) == { files[i].stem : i \in { j \in 1..Len(files) : ~files[j].ok } }

Loaded == refresh.pc = "idle" /\ env.started = env.changes

SkipsUnreadable(cache, folder) ==
    folder.exists =>
        /\ Readable(folder.pdf, extract_text_from_pdf) \subseteq Range(Keys(cache))
        /\ Readable(folder.txt, load_text_file) \subseteq Range(Keys(cache))
        /\ \A stem \in Unreadable(folder.pdf) \cup Unreadable(folder.txt) :
              HasKey(cache, stem) =>
                 stem \in Readable(folder.pdf, extract_text_from_pdf)
                          \cup Readable(folder.txt, load_text_file)

C17_FailedDocumentSkipped ==
    /\ Loaded => /\ SkipsUnreadable(jd_cache, jd_folder)
                 /\ SkipsUnreadable(resume_cache, resume_folder)
    /\ refresh.pc /= "idle" => ENABLED RefreshStep

\* After a refresh of a folder whose first text file and whose PDF cannot be
\* read, the readable text file listed after them is cached, alone.
C17_Witness ==
    /\ Loaded
    /\ env.refreshes >= 1
    /\ resume_folder.pdf = <<BadPdfFile("alice")>>
    /\ resume_folder.txt = <<BadTxtFile("alice"), TxtFile("bob", RawText)>>
    /\ resume_cache = <<[k |-> "bob", v |-> <<"t">>]>>

----------------------------------------------------------------------------
\* C18: a folder that does not exist makes neither construction nor refresh
\* fail: after either, the mapping of that category is empty, every lookup
\* in it is absent and its name list is empty, and the mapping of the other
\* category holds what its own folder yields.
C18_MissingFolderTolerated ==
    /\ (Loaded /\ ~jd_folder.exists) =>
          /\ jd_cache = <<>>
          /\ \A jd_name \in CacheJdNames \cup JdNames :
                get_jd_content(jd_cache, jd_name) = None
          /\ get_all_jd_names(jd_cache) = <<>>
          /\ get_cache_stats(jd_cache, resume_cache).jd_count = 0
          /\ HoldsTheSource(resume_cache, resume_folder, CacheResumeNames)
    /\ (Loaded /\ ~resume_folder.exists) =>
          /\ resume_cache = <<>>
          /\ \A resume_name \in CacheResumeNames \cup ResumeNames :
                get_resume_content(resume_cache, resume_name) = None
          /\ get_all_resume_names(resume_cache) = <<>>
          /\ get_cache_stats(jd_cache, resume_cache).resume_count = 0
          /\ HoldsTheSource(jd_cache, jd_folder, CacheJdNames)
    /\ (refresh.pc /= "idle" /\ ~(jd_folder.exists /\ resume_folder.exists))
          => ENABLED RefreshStep

\* The job-description folder does not exist; after a refresh the two
\* resumes of the resume folder are cached and no job description is.
C18_Witness ==
    /\ Loaded
    /\ env.refreshes >= 1
    /\ ~jd_folder.exists
    /\ resume_folder.exists
    /\ jd_cache = <<>>
    /\ Len(resume_cache) = 2

----------------------------------------------------------------------------
\* C19: for every text it is given, the empty one, texts no pattern fits and
\* one longer than the fallback keeps among them, the extractor returns and
\* does not raise, also when a step inside it fails, and what it returns is
\* a verdict of a name that is a text, a match that is a boolean and a
\* summary that is a text.
HasParsed == extraction.pc = "returned"

WellFormed(r) ==
    /\ DOMAIN r = {"name", "match", "summary"}
    /\ IsText(r.name)
    /\ r.match \in BOOLEAN
    /\ IsText(r.summary)

C19_ExtractorTotal ==
    /\ IsText(extraction.output_text)
    /\ extraction.pc \in {"called", "returned"}
    /\ HasParsed =>
          /\ extraction.parsed /= None
          /\ ~extraction.parsed[1].raised
          /\ WellFormed(extraction.parsed[1].result)

\* The extractor has returned the default verdict for a text longer than the
\* fallback summary keeps, a step inside it having failed.
C19_Witness ==
    /\ HasParsed
    /\ extraction.internal_error
    /\ Len(extraction.output_text) > SummaryLimit
    /\ ~extraction.parsed[1].raised
    /\ extraction.parsed[1].result.name = Unknown
    /\ Len(extraction.parsed[1].result.summary) = Len(ErrorPrefix) + SummaryLimit + 3

----------------------------------------------------------------------------
\* C20 as claimed: for every text that holds a "Candidate Name:" label with a
\* name after it on its line and a copular sentence "... is X." with another
\* name, the extracted name is the one after the label.
PlainLabelLit == <<"C", "a", "n", "d", "i", "d", "a", "t", "e", " ", "N", "a", "m", "e",
      ":">>

RestOfLine(text, q) == SubSeq(text, q, q + RunWhile(text, q, NotNewline) - 1)

IsStarOrSpace(c) == c = "*" \/ c \in Whitespace

\* What follows the first "Candidate Name:" on its line, without the markers
\* and blanks around it.
LabelledName(text) ==
    LET rest == RestOfLine(text, Find(text, PlainLabelLit) + Len(PlainLabelLit))
    IN Strip(SubSeq(rest, 1 + RunWhile(rest, 1, IsStarOrSpace), Len(rest)))

CopularName(text) == Strip(Search(text, Pattern2At)[1])

C20_AnyLabelBeatsCopula ==
    (/\ HasParsed
     /\ ~extraction.internal_error
     /\ Contains(extraction.output_text, PlainLabelLit)
     /\ IsLikelyName(LabelledName(extraction.output_text))
     /\ Search(extraction.output_text, Pattern2At) /= None
     /\ CopularName(extraction.output_text) /= LabelledName(extraction.output_text))
    => extraction.parsed[1].result.name = LabelledName(extraction.output_text)

\* C20, amended: for every text that holds the label in bold,
\* **Candidate Name:**, with text after it on its line, and a copular sentence
\* "... is X." with another name, wherever the two stand, the extracted name
\* is what follows the first such label on its line, trimmed.
BoldLabelledName(text) ==
    Strip(RestOfLine(text, Find(text, LabelLit) + Len(LabelLit)))

C20_BoldLabelBeatsCopula ==
    (/\ HasParsed
     /\ ~extraction.internal_error
     /\ Contains(extraction.output_text, LabelLit)
     /\ BoldLabelledName(extraction.output_text) /= <<>>
     /\ Search(extraction.output_text, Pattern2At) /= None
     /\ CopularName(extraction.output_text) /= BoldLabelledName(extraction.output_text))
    => extraction.parsed[1].result.name = BoldLabelledName(extraction.output_text)

\* A text whose copular sentence, naming somebody else, stands before the
\* bold label has been parsed: the name is the one after the label.
C20_Witness ==
    /\ HasParsed
    /\ ~extraction.internal_error
    /\ Contains(extraction.output_text, LabelLit)
    /\ Search(extraction.output_text, Pattern2At) /= None
    /\ Find(extraction.output_text, <<"i", "s", " ">>) < Find(extraction.output_text, LabelLit)
    /\ IsLikelyName(BoldLabelledName(extraction.output_text))
    /\ IsLikelyName(CopularName(extraction.output_text))
    /\ CopularName(extraction.output_text) /= BoldLabelledName(extraction.output_text)
    /\ extraction.parsed[1].result.name = BoldLabelledName(extraction.output_text)

----------------------------------------------------------------------------
\* C21: a text in which negative indicators occur, the positive indicators
\* present not outnumbering the negative ones, and whose part from the first
\* "conclusion" to its end holds a positive indicator, is parsed to a match.
Present(indicators, text) ==
    {i \in 1..Len(indicators) : Contains(Lower(text), indicators[i])}

FromConclusion(text) ==
    SubSeq(Lower(text), Find(Lower(text), ConclusionLit), Len(text))

PositiveInConclusion(text) ==
    /\ Contains(Lower(text), ConclusionLit)
    /\ Present(positive_indicators, FromConclusion(text)) /= {}

C21_ConclusionOverrides ==
    (/\ HasParsed
     /\ ~extraction.internal_error
     /\ Present(negative_indicators, extraction.output_text) /= {}
     /\ Cardinality(Present(positive_indicators, extraction.output_text))
           <= Cardinality(Present(negative_indicators, extraction.output_text))
     /\ PositiveInConclusion(extraction.output_text))
    => extraction.parsed[1].result.match = TRUE

\* A text with two negative indicators before its conclusion and one positive
\* indicator, in the conclusion, has been parsed to a match.
C21_Witness ==
    /\ HasParsed
    /\ ~extraction.internal_error
    /\ Cardinality(Present(negative_indicators, extraction.output_text)) = 2
    /\ Cardinality(Present(positive_indicators, extraction.output_text)) = 1
    /\ Present(negative_indicators, FromConclusion(extraction.output_text)) = {}
    /\ PositiveInConclusion(extraction.output_text)
    /\ extraction.parsed[1].result.match = TRUE

----------------------------------------------------------------------------
\* C22: for every text parsed without an internal failure, the summary is the
\* whole text without the whitespace at its two ends: the text is blanks, then
\* the summary, then blanks, and the summary neither begins nor ends with a
\* blank; this whatever name was extracted and whatever the verdict.
AllSpace(s) == \A i \in 1..Len(s) : s[i] \in Whitespace

IsTrimOf(s, text) ==
    /\ s = <<>> \/ (s[1] \notin Whitespace /\ s[Len(s)] \notin Whitespace)
    /\ \E i \in 0..(Len(text) - Len(s)) :
          /\ SubSeq(text, i + 1, i + Len(s)) = s
          /\ AllSpace(SubSeq(text, 1, i))
          /\ AllSpace(SubSeq(text, i + Len(s) + 1, Len(text)))

C22_SummaryIsTrimmedText ==
    (HasParsed /\ ~extraction.internal_error)
    => IsTrimOf(extraction.parsed[1].result.summary, extraction.output_text)

\* A text with blanks at each end, from which a name was extracted and which
\* was judged a match, has been parsed: its summary is shorter by five.
C22_Witness ==
    /\ HasParsed
    /\ ~extraction.internal_error
    /\ extraction.output_text /= <<>>
    /\ extraction.output_text[1] \in Whitespace
    /\ Last(extraction.output_text) \in Whitespace
    /\ extraction.parsed[1].result.name /= Unknown
    /\ extraction.parsed[1].result.match = TRUE
    /\ Len(extraction.parsed[1].result.summary) = Len(extraction.output_text) - 5

----------------------------------------------------------------------------
\* C23: when none of the five name rules matches a text, the extracted name
\* is "Unknown" and the rest of the result is computed as for any text: the
\* verdict from the indicators, the summary by trimming.  The empty text gives
\* "Unknown", no match and the empty summary.
NoNameRuleMatches(text) ==
    /\ Search(text, Pattern1At) = None
    /\ Search(text, Pattern2At) = None
    /\ Search(text, Pattern3At) = None
    /\ Search(text, Pattern4At) = None
    /\ \A i \in 1..Len(SplitLines(text)) :
          IsHeaderLine(SplitLines(text)[i]) => LikelyNameAfter(SplitLines(text), i) = None

VerdictOf(text) ==
    \/ Cardinality(Present(positive_indicators, text))
          > Cardinality(Present(negative_indicators, text))
    \/ PositiveInConclusion(text)

C23_DefaultName ==
    (HasParsed /\ ~extraction.internal_error)
    => /\ NoNameRuleMatches(extraction.output_text)
          => /\ ~extraction.parsed[1].raised
             /\ extraction.parsed[1].result.name = Unknown
             /\ extraction.parsed[1].result.match = VerdictOf(extraction.output_text)
             /\ IsTrimOf(extraction.parsed[1].result.summary, extraction.output_text)
       /\ extraction.output_text = <<>>
          => extraction.parsed[1].result = [name |-> Unknown, match |-> FALSE, summary |-> <<>>]

\* A text that no name rule matches and that holds positive indicators has
\* been parsed: the name is "Unknown", the verdict a match.
C23_Witness ==
    /\ HasParsed
    /\ ~extraction.internal_error
    /\ NoNameRuleMatches(extraction.output_text)
    /\ Present(positive_indicators, extraction.output_text) /= {}
    /\ extraction.parsed[1].result.name = Unknown
    /\ extraction.parsed[1].result.match = TRUE
    /\ extraction.parsed[1].result.summary /= <<>>

----------------------------------------------------------------------------
\* C24: when a step of the parsing fails, the extractor raises nothing and
\* returns the name "Unknown", no match, and a summary made of the error
\* marker, the first 200 characters of the text (the whole text when it is
\* shorter) and an ellipsis.
Ellipsis == <<".", ".", ".">>

QuotedLen(text) == Min({Len(text), SummaryLimit})

C24_FallbackOnInternalFailure ==
    (HasParsed /\ extraction.internal_error)
    => /\ ~extraction.parsed[1].raised
       /\ extraction.parsed[1].result.name = Unknown
       /\ extraction.parsed[1].result.match = FALSE
       /\ extraction.parsed[1].result.summary
             = ErrorPrefix \o SubSeq(extraction.output_text, 1,
                                     QuotedLen(extraction.output_text))
                           \o Ellipsis

\* The parsing of a text that names the candidate in bold and holds more
\* positive than negative indicators has failed inside: the result is
\* "Unknown", no match, and the marker followed by the whole text.
C24_Witness ==
    /\ HasParsed
    /\ extraction.internal_error
    /\ Search(extraction.output_text, Pattern1At) /= None
    /\ VerdictOf(extraction.output_text)
    /\ ~extraction.parsed[1].raised
    /\ extraction.parsed[1].result.name = Unknown
    /\ extraction.parsed[1].result.match = FALSE
    /\ extraction.parsed[1].result.summary
          = ErrorPrefix \o extraction.output_text \o Ellipsis

----------------------------------------------------------------------------
\* C25: in every event a batch has yielded, progress or final, every record
\* of status ERROR has the candidate name "Unknown", no match, and a summary
\* that describes the error: it names the resume and, for a failed call, the
\* failure; it is never the text of a reply of the model.
ReplySummaries == {ParsedReplies[t].result.summary : t \in ReplyTexts}

DescribesError(r) ==
    \/ r.summary = <<"Could not retrieve content for ", r.resume_name>>
    \/ \E e \in RunFailureMsgs \cup {UnboundLocalMsg} :
          r.summary = <<"Error analyzing ", r.resume_name, ": ", e>>

RecordsOf(e) == IF IsFinalEvent(e) THEN e.payload.results ELSE e.payload

ErrorRecordsOf(e) ==
    {k \in 1..Len(RecordsOf(e)) : RecordsOf(e)[k].status = "ERROR"}

C25_ErrorRecordShape ==
    \A b \in BatchIds : \A n \in 1..Len(events[b]) :
        \A k \in ErrorRecordsOf(events[b][n]) :
            LET r == RecordsOf(events[b][n])[k]
            IN /\ r.candidate_name = Unknown
               /\ r.match = FALSE
               /\ DescribesError(r)
               /\ r.summary \notin ReplySummaries
               /\ r.summary \notin ReplyTexts

\* A batch of three has ended: the first call returned a reply, the second
\* failed, the third resume had no content; the progress event after the
\* second and the final event both hold the ERROR record of the failed call.
C25_Witness ==
    /\ gen["b1"].pc = "done"
    /\ Len(events["b1"]) = 4
    /\ IsFinalEvent(Last(events["b1"]))
    /\ Len(llm_calls["b1"]) = 2
    /\ RecordsOf(events["b1"][2])[1].status = "SUCCESS"
    /\ RecordsOf(events["b1"][2])[1].summary \in ReplySummaries
    /\ ErrorRecordsOf(events["b1"][2]) = {2}
    /\ ErrorRecordsOf(Last(events["b1"])) = {2, 3}
    /\ RecordsOf(Last(events["b1"]))[2].summary[1] = "Error analyzing "
    /\ RecordsOf(Last(events["b1"]))[3].summary[1] = "Could not retrieve content for "

----------------------------------------------------------------------------
\* C26: within a batch the calls of the model are strictly sequential.  While
\* a call is outstanding it is the call for the candidate the loop stands at,
\* and every earlier call has its record in the list and its progress event
\* yielded; a call starts only when none is outstanding and the record and
\* the progress event of every candidate before it exist.
Outstanding(b) == IF gen[b].pc = "awaiting" THEN 1 ELSE 0

HasRecordAndEvent(b, name) ==
    \E j \in 1..Len(gen[b].results_list) :
        /\ gen[b].results_list[j].resume_name = name
        /\ j <= Len(events[b])
        /\ events[b][j].resume_name = Some(name)
        /\ Len(RecordsOf(events[b][j])) = j
        /\ RecordsOf(events[b][j])[j] = gen[b].results_list[j]

C26_State ==
    \A b \in BatchIds :
        /\ \A k \in 1..(Len(llm_calls[b]) - Outstanding(b)) :
              HasRecordAndEvent(b, llm_calls[b][k])
        /\ gen[b].pc = "awaiting"
              => /\ llm_calls[b] /= <<>>
                 /\ Last(llm_calls[b]) = gen[b].resume_names[gen[b].i]
                 /\ ~HasRecordAndEvent(b, Last(llm_calls[b]))
                 /\ Len(gen[b].results_list) = gen[b].i - 1
                 /\ Len(events[b]) = gen[b].i - 1

C26_Step ==
    \A b \in BatchIds :
        llm_calls'[b] /= llm_calls[b]
        => /\ Outstanding(b) = 0
           /\ llm_calls'[b] = Append(llm_calls[b], gen[b].resume_names[gen[b].i])
           /\ Len(gen[b].results_list) = gen[b].i - 1
           /\ Len(events[b]) = gen[b].i - 1
           /\ \A k \in 1..(gen[b].i - 1) :
                 /\ gen[b].results_list[k].resume_name = gen[b].resume_names[k]
                 /\ events[b][k].resume_name = Some(gen[b].resume_names[k])

C26_StrictlySequential == []C26_State /\ [][C26_Step]_vars

\* The call for the third candidate of a batch is outstanding: the first two
\* calls have their records and their progress events, the third has neither.
C26_Witness ==
    /\ gen["b1"].pc = "awaiting"
    /\ gen["b1"].i = 3
    /\ Len(llm_calls["b1"]) = 3
    /\ HasRecordAndEvent("b1", llm_calls["b1"][1])
    /\ HasRecordAndEvent("b1", llm_calls["b1"][2])
    /\ ~HasRecordAndEvent("b1", llm_calls["b1"][3])
    /\ Len(events["b1"]) = 2

----------------------------------------------------------------------------
\* C27: a record has status SUCCESS exactly when the resume had content at
\* its turn and the call of the model and the parsing of its reply ended
\* without raising; the record's candidate name, match and summary are then
\* what the extractor gives for the reply: the name after the bold label, or
\* "Unknown" when no rule matches, the verdict of the indicators, and the
\* reply trimmed.
\* What the replies hold: their verdict, whether a name follows a bold label
\* on its line, and whether no name rule matches.
ReplyFacts ==
    [t \in ReplyTexts |->
        [verdict |-> VerdictOf(t),
         labelled |-> Contains(t, LabelLit) /\ BoldLabelledName(t) /= <<>>,
         label_name |-> IF Contains(t, LabelLit) THEN BoldLabelledName(t) ELSE <<>>,
         no_rule |-> NoNameRuleMatches(t)]]

IsVerdictFor(r, t) ==
    /\ r.match = ReplyFacts[t].verdict
    /\ IsTrimOf(r.summary, t)
    /\ ReplyFacts[t].labelled => r.candidate_name = ReplyFacts[t].label_name
    /\ ReplyFacts[t].no_rule => r.candidate_name = Unknown

ContentAtTurn(b) ==
    Truthy(get_resume_content(resume_cache, gen[b].resume_names[gen[b].i]))

\* The step of the generator that appends a record.
Appends(b) == Len(gen'[b].results_list) = Len(gen[b].results_list) + 1

C27_State ==
    \A b \in BatchIds : \A k \in 1..Len(gen[b].results_list) :
        LET r == gen[b].results_list[k]
        IN /\ r.status = "SUCCESS"
                => /\ r.resume_name \in Range(llm_calls[b])
                   /\ \E t \in ReplyTexts : IsVerdictFor(r, t)
           /\ r.status /= "SUCCESS"
                => /\ r.status = "ERROR"
                   /\ DescribesError(r)

C27_Step ==
    \A b \in BatchIds :
        /\ (gen[b].pc = "loop" /\ gen'[b].pc = "awaiting") => ContentAtTurn(b)
        /\ (gen[b].pc = "loop" /\ Appends(b))
              => /\ Last(gen'[b].results_list).status = "ERROR"
                 /\ ~ContentAtTurn(b) \/ ~config_has_llm
        /\ (gen[b].pc = "awaiting" /\ Appends(b))
              => LET r == Last(gen'[b].results_list)
                 IN /\ r.resume_name = Last(llm_calls[b])
                    /\ \/ /\ r.status = "SUCCESS"
                          /\ \E t \in ReplyTexts : IsVerdictFor(r, t)
                       \/ /\ r.status = "ERROR"
                          /\ \E e \in RunFailureMsgs :
                                r.summary = <<"Error analyzing ", r.resume_name, ": ", e>>

C27_SuccessIsTheExtractorsVerdict == []C27_State /\ [][C27_Step]_vars

\* A batch of three has ended with a SUCCESS record that carries the name
\* "Ann Lee" and a match, a SUCCESS record that carries "Unknown" and no
\* match, and an ERROR record for a resume that had lost its content.
C27_Witness ==
    /\ gen["b1"].pc = "done"
    /\ Len(gen["b1"].results_list) = 3
    /\ Len(llm_calls["b1"]) = 2
    /\ \E j, k, l \in 1..3 :
          /\ gen["b1"].results_list[j].status = "SUCCESS"
          /\ gen["b1"].results_list[j].candidate_name = <<"A", "n", "n", " ", "L", "e", "e">>
          /\ gen["b1"].results_list[j].match = TRUE
          /\ gen["b1"].results_list[k].status = "SUCCESS"
          /\ gen["b1"].results_list[k].candidate_name = Unknown
          /\ gen["b1"].results_list[k].match = FALSE
          /\ gen["b1"].results_list[k].summary = <<"L", "a", "c", "k", "s", " ", "d", "e", "p", "t", "h", ".">>
          /\ gen["b1"].results_list[l].status = "ERROR"
          /\ gen["b1"].results_list[l].resume_name \notin Range(llm_calls["b1"])

----------------------------------------------------------------------------
\* C28 as claimed: whatever the analyzer's configuration holds, an 'llm'
\* section or none, analyze_resume issues the call of the model: whenever the
\* loop takes a resume that has content, the call for it is started.
C28_CallIssuedWhateverTheConfig ==
    [][\A b \in BatchIds :
          (/\ gen[b].pc = "loop"
           /\ Steps(b)
           /\ gen[b].i <= Len(gen[b].resume_names)
           /\ ContentAtTurn(b))
          => /\ gen'[b].pc = "awaiting"
             /\ llm_calls'[b] = Append(llm_calls[b], gen[b].resume_names[gen[b].i])]_vars

----------------------------------------------------------------------------
\* C29: within one batch the model is called at most once for a candidate:
\* the calls of a batch are for distinct names of its snapshot, in its order,
\* none for a name the loop has not reached; a call that failed has left the
\* candidate's ERROR record and the loop has passed on.
CallsOf(b, name) == {k \in 1..Len(llm_calls[b]) : llm_calls[b][k] = name}

PositionOf(b, name) ==
    {k \in 1..Len(gen[b].resume_names) : gen[b].resume_names[k] = name}

FailedCall(b, r) ==
    /\ r.status = "ERROR"
    /\ \E e \in RunFailureMsgs :
          r.summary = <<"Error analyzing ", r.resume_name, ": ", e>>

C29_AtMostOneCallPerCandidate ==
    \A b \in BatchIds :
        /\ \A name \in ResumeNames : Cardinality(CallsOf(b, name)) <= 1
        /\ \A k \in 1..Len(llm_calls[b]) :
              /\ PositionOf(b, llm_calls[b][k]) /= {}
              /\ \A p \in PositionOf(b, llm_calls[b][k]) : p <= gen[b].i
              /\ \A j \in 1..(k - 1) :
                    \A p \in PositionOf(b, llm_calls[b][j]),
                       q \in PositionOf(b, llm_calls[b][k]) : p < q
        /\ \A k \in 1..Len(gen[b].results_list) :
              FailedCall(b, gen[b].results_list[k])
              => /\ Cardinality(CallsOf(b, gen[b].results_list[k].resume_name)) = 1
                 /\ gen[b].i > k

\* A batch of three has ended: the second call timed out, the candidate has
\* an ERROR record, and three calls were made in all, one for each name.
C29_Witness ==
    /\ gen["b1"].pc = "done"
    /\ Len(gen["b1"].resume_names) = 3
    /\ llm_calls["b1"] = gen["b1"].resume_names
    /\ FailedCall("b1", gen["b1"].results_list[2])
    /\ gen["b1"].results_list[2].summary[4] = "Request timed out."
    /\ gen["b1"].results_list[1].status = "SUCCESS"
    /\ gen["b1"].results_list[3].status = "SUCCESS"

----------------------------------------------------------------------------
\* C30 as claimed: the verdict counts the occurrences of the indicators in
\* the whole text, an indicator that occurs twice counting twice: whenever
\* the positive indicators occur more often than the negative ones, the text
\* is parsed to a match.
Occurrences(text, indicator) ==
    Cardinality({p \in 1..Len(text) : At(Lower(text), p, indicator)})

RECURSIVE OccurrenceSum(_, _, _)
OccurrenceSum(indicators, text, n) ==
    IF n = 0 THEN 0
    ELSE Occurrences(text, indicators[n]) + OccurrenceSum(indicators, text, n - 1)

PositiveOccurrences(text) ==
    OccurrenceSum(positive_indicators, text, Len(positive_indicators))

NegativeOccurrences(text) ==
    OccurrenceSum(negative_indicators, text, Len(negative_indicators))

C30_OccurrencesDecide ==
    (/\ HasParsed
     /\ ~extraction.internal_error
     /\ PositiveOccurrences(extraction.output_text)
           > NegativeOccurrences(extraction.output_text))
    => extraction.parsed[1].result.match = TRUE

\* C30, amended: the verdict counts the indicators that occur in the whole
\* text, each once however often it occurs: whenever more of the positive
\* indicators than of the negative ones occur, the text is parsed to a match;
\* otherwise, in a text without "conclusion", it is parsed to no match.
C30_DistinctIndicatorsDecide ==
    (HasParsed /\ ~extraction.internal_error)
    => /\ Cardinality(Present(positive_indicators, extraction.output_text))
             > Cardinality(Present(negative_indicators, extraction.output_text))
          => extraction.parsed[1].result.match = TRUE
       /\ (/\ Cardinality(Present(positive_indicators, extraction.output_text))
                <= Cardinality(Present(negative_indicators, extraction.output_text))
           /\ ~Contains(Lower(extraction.output_text), ConclusionLit))
          => extraction.parsed[1].result.match = FALSE

\* A text in which two positive indicators occur once each and one negative
\* indicator three times, without a conclusion, has been parsed to a match.
C30_Witness ==
    /\ HasParsed
    /\ ~extraction.internal_error
    /\ ~Contains(Lower(extraction.output_text), ConclusionLit)
    /\ Cardinality(Present(positive_indicators, extraction.output_text)) = 2
    /\ Cardinality(Present(negative_indicators, extraction.output_text)) = 1
    /\ PositiveOccurrences(extraction.output_text) = 2
    /\ NegativeOccurrences(extraction.output_text) = 3
    /\ extraction.parsed[1].result.match = TRUE

----------------------------------------------------------------------------
\* C31: a text in which the positive indicators present do not outnumber the
\* negative ones, and which has no "conclusion" or no positive indicator from
\* its first "conclusion" to its end, is parsed to no match.
C31_OtherwiseNoMatch ==
    (/\ HasParsed
     /\ ~extraction.internal_error
     /\ Cardinality(Present(positive_indicators, extraction.output_text))
           <= Cardinality(Present(negative_indicators, extraction.output_text))
     /\ ~PositiveInConclusion(extraction.output_text))
    => extraction.parsed[1].result.match = FALSE

\* A text with a positive indicator before its conclusion, two negative ones
\* and none positive from the conclusion on has been parsed to no match.
C31_Witness ==
    /\ HasParsed
    /\ ~extraction.internal_error
    /\ Contains(Lower(extraction.output_text), ConclusionLit)
    /\ Cardinality(Present(positive_indicators, extraction.output_text)) = 1
    /\ Cardinality(Present(negative_indicators, extraction.output_text)) = 2
    /\ Present(negative_indicators, FromConclusion(extraction.output_text)) /= {}
    /\ ~PositiveInConclusion(extraction.output_text)
    /\ extraction.parsed[1].result.match = FALSE

----------------------------------------------------------------------------
\* C32: the records are append-only.  The records of every event a batch has
\* yielded are a prefix of the records of every later event of the batch and
\* of the batch's list; a step leaves the events already yielded as they are
\* and changes the list only by adding one record at its end.
IsPrefix(s, t) == Len(s) <= Len(t) /\ SubSeq(t, 1, Len(s)) = s

C32_State ==
    \A b \in BatchIds :
        \A j \in 1..Len(events[b]) :
            /\ IsPrefix(RecordsOf(events[b][j]), gen[b].results_list)
            /\ \A k \in (j + 1)..Len(events[b]) :
                  IsPrefix(RecordsOf(events[b][j]), RecordsOf(events[b][k]))

C32_Step ==
    \A b \in BatchIds :
        /\ IsPrefix(events[b], events'[b])
        /\ Len(events'[b]) <= Len(events[b]) + 1
        /\ IsPrefix(gen[b].results_list, gen'[b].results_list)
        /\ Len(gen'[b].results_list) <= Len(gen[b].results_list) + 1

C32_RecordsAppendOnly == []C32_State /\ [][C32_Step]_vars

\* A batch of three has yielded its final event: the first progress event
\* holds one record, the second the same record and one more, the final
\* event those two and a third, an ERROR record among the first two.
C32_Witness ==
    /\ Len(events["b1"]) = 4
    /\ IsFinalEvent(events["b1"][4])
    /\ Len(RecordsOf(events["b1"][1])) = 1
    /\ Len(RecordsOf(events["b1"][2])) = 2
    /\ Len(RecordsOf(events["b1"][4])) = 3
    /\ RecordsOf(events["b1"][2])[1] = RecordsOf(events["b1"][1])[1]
    /\ SubSeq(RecordsOf(events["b1"][4]), 1, 2) = RecordsOf(events["b1"][2])
    /\ ErrorRecordsOf(events["b1"][2]) /= {}
    /\ ErrorRecordsOf(events["b1"][4]) /= {1, 2, 3}

----------------------------------------------------------------------------
\* C33: two runs of analyze_jd for the same job description over the same
\* cache contents, the model giving the same outcome for the same candidate
\* in both, yield the same events: at every moment the events of one are a
\* prefix of the events of the other, and once both have ended, by returning
\* or by raising, their events and their errors are equal.
SameRequest ==
    /\ gen["b1"].pc /= "idle"
    /\ gen["b2"].pc /= "idle"
    /\ gen["b1"].jd_name = gen["b2"].jd_name
    /\ env.reply["b1"] = env.reply["b2"]

Ended(b) == gen[b].pc \in {"done", "raised"}

C33_Deterministic ==
    SameRequest
    => /\ IsPrefix(events["b1"], events["b2"]) \/ IsPrefix(events["b2"], events["b1"])
       /\ (Ended("b1") /\ Ended("b2"))
             => /\ events["b1"] = events["b2"]
                /\ gen["b1"].pc = gen["b2"].pc
                /\ gen["b1"].error = gen["b2"].error

\* Two runs for the same job description over two resumes have returned, the
\* model failing for the first resume and replying for the second in both:
\* three events each, the same in both, an ERROR and a SUCCESS record.
C33_Witness ==
    /\ SameRequest
    /\ gen["b1"].pc = "done"
    /\ gen["b2"].pc = "done"
    /\ Len(events["b1"]) = 3
    /\ events["b1"] = events["b2"]
    /\ RecordsOf(events["b1"][3])[1].status = "ERROR"
    /\ RecordsOf(events["b2"][3])[2].status = "SUCCESS"
    /\ Last(events["b2"]).payload.statistics = Last(events["b1"]).payload.statistics

----------------------------------------------------------------------------
\* C34 as claimed: when the command-line entry point, run with --jd naming a
\* cached job description while at least one resume is cached, has exited,
\* the batch has yielded its final event with one record for every cached
\* resume, the table and the statistics of that event were printed, and the
\* exit was a normal one.
JdRunOverCachedData ==
    /\ main.args /= None
    /\ ~main.args[1].list
    /\ ~main.args[1].stats
    /\ main.args[1].jd /= None
    /\ HasKey(jd_cache, main.args[1].jd[1])
    /\ resume_cache /= <<>>

C34_CliDrivesBatchToFinalEvent ==
    (main.pc = "exited" /\ JdRunOverCachedData)
    => /\ main.exit_code = Some(0)
       /\ events["b1"] /= <<>>
       /\ IsFinalEvent(Last(events["b1"]))
       /\ ResumeNamesOf(RecordsOf(Last(events["b1"]))) = Keys(resume_cache)
       /\ main.printed = <<Last(events["b1"]).payload.table,
                           Last(events["b1"]).payload.statistics>>

-----------------------------------------------------------------------------
(* C35: one Analyze action of the dashboard runs the batch once *)

\* C35: from one press of Analyze to the end of the handler the router's
\* batch is run once only: over both generators the handler creates, no
\* candidate is sent to the model more than once.
C35_BatchRunsOncePerAction ==
    \A name \in PairResumeNames :
        Cardinality(CallsOf("b1", name)) + Cardinality(CallsOf("b2", name)) <= 1

-----------------------------------------------------------------------------
\* C36: when a load is complete on the source as it is and a folder holds
\* both a PDF and a text file of one name, the mapping of that category has
\* at most one entry of that name; the entry holds the trimmed text of the
\* text file when that is not empty and the extracted text of the PDF
\* otherwise; and the names stand in the order of their first insertion: the
\* names whose PDF has text, as the PDFs are listed, before the names cached
\* from a text file alone, as the text files are listed.
PdfText(folder, stem) == TextOf(folder.pdf, stem, extract_text_from_pdf)

TxtText(folder, stem) == TextOf(folder.txt, stem, load_text_file)

InsertionOrder(folder) ==
    SelectSeq(Stems(folder.pdf), LAMBDA stem : PdfText(folder, stem) /= <<>>)
    \o SelectSeq(Stems(folder.txt),
                 LAMBDA stem : TxtText(folder, stem) /= <<>>
                               /\ PdfText(folder, stem) = <<>>)

TextFileWins(cache, folder, names) ==
    /\ \A stem \in names :
          (HasFile(folder.pdf, stem) /\ HasFile(folder.txt, stem))
          => /\ Cardinality({i \in 1..Len(cache) : cache[i].k = stem}) <= 1
             /\ TxtText(folder, stem) /= <<>>
                   => DictGet(cache, stem) = Some(TxtText(folder, stem))
             /\ (TxtText(folder, stem) = <<>> /\ PdfText(folder, stem) /= <<>>)
                   => DictGet(cache, stem) = Some(PdfText(folder, stem))
             /\ (TxtText(folder, stem) = <<>> /\ PdfText(folder, stem) = <<>>)
                   => ~HasKey(cache, stem)
    /\ Keys(cache) = InsertionOrder(folder)

C36_TextFileWinsInPlace ==
    Loaded => /\ TextFileWins(jd_cache, jd_folder, CacheJdNames)
              /\ TextFileWins(resume_cache, resume_folder, CacheResumeNames)

\* A refresh has returned on a folder holding alice.pdf and, listed in this
\* order, bob.txt and alice.txt, all with text: alice is cached first, with
\* the text of alice.txt, and bob after her.
C36_Witness ==
    /\ Loaded
    /\ env.refreshes >= 1
    /\ resume_folder.pdf = <<PdfFile("alice", Pages)>>
    /\ resume_folder.txt = <<TxtFile("bob", RawText), TxtFile("alice", RawText)>>
    /\ resume_cache = <<[k |-> "alice", v |-> <<"t">>], [k |-> "bob", v |-> <<"t">>]>>
    /\ extract_text_from_pdf(PdfFile("alice", Pages)) = <<"p", "q">>

-----------------------------------------------------------------------------
\* C37: two batches interleaved on one Router and one cache that is not
\* refreshed do not interfere. A step of one batch leaves the frame, the
\* events and the calls of the other batch as they were; and every event of a
\* batch carries the records its own replies dictate, one per name in the
\* order of the name list, a progress event the first of them up to its
\* resume and the final event all of them with the statistics of these
\* records, whatever the other batch was answered.
OwnRecord(b, resume_name) ==
    LET r == analyze_resume(env.reply[b][resume_name])
    IN IF ~HasContent(get_resume_content(resume_cache, resume_name))
       THEN ErrorRecord(resume_name, NoContentMsg(resume_name))
       ELSE IF r.raised
       THEN ErrorRecord(resume_name, AnalyzeErrorMsg(resume_name, r.msg))
       ELSE SuccessRecord(resume_name, r.result)

OwnRecords(b) ==
    LET names == get_all_resume_names(resume_cache)
    IN [k \in 1..Len(names) |-> OwnRecord(b, names[k])]

OwnEvent(b, n) ==
    LET names == get_all_resume_names(resume_cache)
    IN IF n <= Len(names)
       THEN ProgressEvent(SubSeq(OwnRecords(b), 1, n), names[n])
       ELSE FinalEvent(gen[b].jd_name, OwnRecords(b),
                       generate_table(OwnRecords(b), gen[b].verbose),
                       calculate_statistics(OwnRecords(b)))

C37_State ==
    \A b \in BatchIds :
        /\ Len(events[b]) <= Len(get_all_resume_names(resume_cache)) + 1
        /\ \A n \in 1..Len(events[b]) : events[b][n] = OwnEvent(b, n)
        /\ gen[b].pc = "done" =>
              Len(events[b]) = Len(get_all_resume_names(resume_cache)) + 1

C37_Step ==
    \A b \in BatchIds :
        (gen'[b] /= gen[b] \/ events'[b] /= events[b] \/ llm_calls'[b] /= llm_calls[b])
        => \A c \in BatchIds \ {b} :
              /\ gen'[c] = gen[c]
              /\ events'[c] = events[c]
              /\ llm_calls'[c] = llm_calls[c]

C37_BatchesDoNotInterfere == []C37_State /\ [][C37_Step]_vars

\* Both batches are in the middle of the same list of two resumes, each
\* waiting for the model on bob after its event for alice, and the first
\* batch was answered differently from the second for alice: each event
\* holds the batch's own record.
C37_Witness ==
    /\ gen["b1"].pc = "awaiting"
    /\ gen["b2"].pc = "awaiting"
    /\ gen["b1"].resume_names = <<"alice", "bob">>
    /\ gen["b1"].i = 2
    /\ gen["b2"].i = 2
    /\ Len(events["b1"]) = 1
    /\ Len(events["b2"]) = 1
    /\ events["b1"][1].payload[1].status = "SUCCESS"
    /\ events["b2"][1].payload[1].status = "ERROR"
    /\ env.reply["b1"]["alice"] /= env.reply["b2"]["alice"]

-----------------------------------------------------------------------------
\* C38: in the statistics of every final event the counts are ordered,
\* 0 <= successful_matches <= total_successful <= total_analyzed, the match
\* rate is a number from 0 to 100, and successful_matches counts no record
\* of status ERROR: it is the number of records of status SUCCESS whose match
\* is true, and no ERROR record has a true match.
MatchingSuccesses(records) ==
    {k \in 1..Len(records) : records[k].match /\ records[k].status = "SUCCESS"}

RateWithin(q, low, high) ==
    /\ ~q.raised
    /\ q.den > 0
    /\ low * q.den <= q.num
    /\ q.num <= high * q.den

OrderedStatistics(e) ==
    LET s == e.payload.statistics
    IN /\ 0 <= s.successful_matches
       /\ s.successful_matches <= s.total_successful
       /\ s.total_successful <= s.total_analyzed
       /\ RateWithin(s.match_rate, 0, 100)
       /\ s.successful_matches = Cardinality(MatchingSuccesses(RecordsOf(e)))
       /\ \A k \in ErrorRecordsOf(e) : ~RecordsOf(e)[k].match

C38_StatisticsOrdered ==
    \A b \in BatchIds : \A n \in 1..Len(events[b]) :
        IsFinalEvent(events[b][n]) => OrderedStatistics(events[b][n])

\* A final event over three resumes: one failed, one is a match, one was
\* analysed and is no match; the rate is 100/2.
C38_Witness ==
    \E n \in 1..Len(events["b1"]) :
        /\ IsFinalEvent(events["b1"][n])
        /\ Cardinality(ErrorRecordsOf(events["b1"][n])) = 1
        /\ events["b1"][n].payload.statistics.total_analyzed = 3
        /\ events["b1"][n].payload.statistics.total_successful = 2
        /\ events["b1"][n].payload.statistics.successful_matches = 1
        /\ events["b1"][n].payload.statistics.match_rate
              = [raised |-> FALSE, num |-> 100, den |-> 2]

====
